---- MODULE Spec2Model ----
(***************************************************************************)
(* Model of mdc_dlp/scrape.py: the RSC stream decoder and the crawl of     *)
(* main().  Text is a sequence of one-character strings; a decoded JSON    *)
(* value is a record [t, v] tagged by its Python type.                     *)
(***************************************************************************)
EXTENDS Integers, Sequences, FiniteSets, TLC

(* ------------------------------------------------------------------ *)
(* Bounds of the model                                                 *)
(* ------------------------------------------------------------------ *)
\* Largest number of records all_rows is followed to.
MaxRows == 3
\* Largest number of anchor links of a markup document.
MaxLinks == 2

(* ------------------------------------------------------------------ *)
(* Characters                                                          *)
(* ------------------------------------------------------------------ *)
Q == "\""
BS == "\\"
NL == "\n"
Digits == {"0", "1", "2", "3", "4", "5", "6", "7", "8", "9"}
Lower == {"a", "b", "c", "d", "e", "f", "g", "h", "i", "j", "k", "l", "m",
          "n", "o", "p", "q", "r", "s", "t", "u", "v", "w", "x", "y", "z"}
Upper == {"A", "B", "C", "D", "E", "F", "G", "H", "I", "J", "K", "L", "M",
          "N", "O", "P", "Q", "R", "S", "T", "U", "V", "W", "X", "Y", "Z"}
\* \s of the re module (ASCII part) and the whitespace json skips.
ReSpace == {" ", "\t", "\n", "\r", "\f"}
JsonSpace == {" ", "\t", "\n", "\r"}
\* [@A-Za-z0-9_]
RefChars == Lower \cup Upper \cup Digits \cup {"@", "_"}
\* [a-z0-9]
IdChars == Lower \cup Digits
HexChars == Digits \cup {"a", "b", "c", "d", "e", "f", "A", "B", "C", "D", "E", "F"}

Min(a, b) == IF a <= b THEN a ELSE b

Last(s) == s[Len(s)]

\* s[i:j] of Python for 0-based i <= j (1-based here: positions i+1 .. j).
Slice(s, i, j) == SubSeq(s, i + 1, Min(j, Len(s)))

\* s.startswith(p, i) for a 1-based position i.
StartsAt(s, p, i) ==
    /\ i >= 1
    /\ i + Len(p) - 1 <= Len(s)
    /\ \A k \in 1..Len(p) : s[i + k - 1] = p[k]

(* ------------------------------------------------------------------ *)
(* Python values                                                       *)
(* ------------------------------------------------------------------ *)
\* None (and JSON null).
None == [t |-> "null", v |-> <<>>]
PyBool(b) == [t |-> "bool", v |-> IF b THEN <<"1">> ELSE <<"0">>]
\* A number, kept as the text of its literal.
PyNum(text) == [t |-> "num", v |-> text]
\* A str, as its characters.
PyStr(chars) == [t |-> "str", v |-> chars]
\* A list, as the sequence of its elements.
PyList(elems) == [t |-> "list", v |-> elems]
\* A dict, as the function from its keys (character sequences) to values.
PyDict(map) == [t |-> "dict", v |-> map]

EmptyMap == [k \in {} |-> None]
\* d[key] = val on a dict's map: a repeated key keeps the last value.
MapPut(map, key, val) ==
    [k \in (DOMAIN map) \cup {key} |-> IF k = key THEN val ELSE map[k]]

ID == <<"i", "d">>
\* A variant that appends None for a missing detail.
MinimalRecordNone(ds_id) == None
\* {"id": ds_id}
MinimalRecord(ds_id) == PyDict(MapPut(EmptyMap, ID, PyStr(ds_id)))

\* The mantissa of a number's literal is zero.
RECURSIVE IsZeroText(_, _)
IsZeroText(text, i) ==
    IF i > Len(text) \/ text[i] \in {"e", "E"} THEN TRUE
    ELSE IF text[i] \in Digits \ {"0"} THEN FALSE
    ELSE IsZeroText(text, i + 1)

\* bool(x): None, False, zero, and empty str/list/dict are false.
Truthy(x) ==
    CASE x.t = "null" -> FALSE
      [] x.t = "bool" -> x.v = <<"1">>
      [] x.t = "num"  -> ~IsZeroText(x.v, 1)
      [] x.t = "str"  -> Len(x.v) > 0
      [] x.t = "list" -> Len(x.v) > 0
      [] x.t = "dict" -> DOMAIN x.v # {}

\* x == y of Python on decoded values (True == 1 and False == 0; numbers
\* are compared by their literals).
PyEq(x, y) ==
    \/ x = y
    \/ /\ x.t = "bool" /\ y.t = "num"
       /\ y.v = x.v
    \/ /\ x.t = "num" /\ y.t = "bool"
       /\ y.v = x.v

(* ------------------------------------------------------------------ *)
(* json.loads                                                          *)
(* ------------------------------------------------------------------ *)
\* A parse step: ok, the value, and the position after it.
Parsed(val, next) == [ok |-> TRUE, val |-> val, next |-> next]
ParseError == [ok |-> FALSE, val |-> None, next |-> 0]

RECURSIVE SkipJsonSpace(_, _)
SkipJsonSpace(s, i) ==
    IF i <= Len(s) /\ s[i] \in JsonSpace THEN SkipJsonSpace(s, i + 1) ELSE i

RECURSIVE SkipDigits(_, _)
SkipDigits(s, i) ==
    IF i <= Len(s) /\ s[i] \in Digits THEN SkipDigits(s, i + 1) ELSE i

\* One-character escapes of a JSON string (the backspace is written "\\b").
Unescape(c) ==
    CASE c = "b" -> "\\b"
      [] c = "f" -> "\f"
      [] c = "n" -> "\n"
      [] c = "r" -> "\r"
      [] c = "t" -> "\t"
      [] OTHER -> c

\* The characters of a string literal whose opening quote is before i.
RECURSIVE ScanJsonString(_, _, _)
ScanJsonString(s, i, acc) ==
    IF i > Len(s) THEN ParseError
    ELSE IF s[i] = Q THEN Parsed(PyStr(acc), i + 1)
    ELSE IF s[i] = BS THEN
        IF i + 1 > Len(s) THEN ParseError
        ELSE IF s[i + 1] \in {Q, BS, "/", "b", "f", "n", "r", "t"}
            THEN ScanJsonString(s, i + 2, Append(acc, Unescape(s[i + 1])))
        ELSE IF /\ s[i + 1] = "u"
                /\ i + 5 <= Len(s)
                /\ \A k \in 2..5 : s[i + k] \in HexChars
            THEN ScanJsonString(s, i + 6,
                     acc \o <<"\\u">> \o SubSeq(s, i + 2, i + 5))
        ELSE ParseError
    ELSE IF s[i] \in {"\n", "\r", "\t", "\f"} THEN ParseError
    ELSE ScanJsonString(s, i + 1, Append(acc, s[i]))

\* The end of the integer part -?(0|[1-9]\d*) that starts at i, or 0.
IntegerEnd(s, i) ==
    IF i > Len(s) THEN 0
    ELSE IF s[i] = "-" THEN
        IF i + 1 > Len(s) THEN 0
        ELSE IF s[i + 1] = "0" THEN i + 2
        ELSE IF s[i + 1] \in Digits THEN SkipDigits(s, i + 1)
        ELSE 0
    ELSE IF s[i] = "0" THEN i + 1
    ELSE IF s[i] \in Digits THEN SkipDigits(s, i)
    ELSE 0

\* The end of the optional fraction (\.\d+)? at b.
FractionEnd(s, b) ==
    IF b + 1 <= Len(s) /\ s[b] = "." /\ s[b + 1] \in Digits
    THEN SkipDigits(s, b + 1) ELSE b

\* The end of the optional exponent ([eE][-+]?\d+)? at c.
ExponentEnd(s, c) ==
    IF c <= Len(s) /\ s[c] \in {"e", "E"}
    THEN IF c + 1 <= Len(s) /\ s[c + 1] \in Digits THEN SkipDigits(s, c + 1)
         ELSE IF /\ c + 2 <= Len(s)
                 /\ s[c + 1] \in {"+", "-"}
                 /\ s[c + 2] \in Digits
             THEN SkipDigits(s, c + 2)
         ELSE c
    ELSE c

\* The number literal s[i .. e-1].
NumberTo(s, i, e) ==
    IF e = 0 THEN ParseError ELSE Parsed(PyNum(SubSeq(s, i, e - 1)), e)
NumberFrom(s, i, b) ==
    IF b = 0 THEN ParseError
    ELSE NumberTo(s, i, ExponentEnd(s, FractionEnd(s, b)))

RECURSIVE ParseValue(_, _), ParseMembers(_, _, _), ParseElements(_, _, _)
RECURSIVE AfterMember(_, _, _), AfterElement(_, _, _)
\* The JSON value starting at position i.
ParseValue(s, i) ==
    IF i > Len(s) THEN ParseError
    ELSE IF s[i] = Q THEN ScanJsonString(s, i + 1, <<>>)
    ELSE IF s[i] = "{" THEN ParseMembers(s, SkipJsonSpace(s, i + 1), EmptyMap)
    ELSE IF s[i] = "[" THEN ParseElements(s, SkipJsonSpace(s, i + 1), <<>>)
    ELSE IF StartsAt(s, <<"n", "u", "l", "l">>, i) THEN Parsed(None, i + 4)
    ELSE IF StartsAt(s, <<"t", "r", "u", "e">>, i) THEN Parsed(PyBool(TRUE), i + 4)
    ELSE IF StartsAt(s, <<"f", "a", "l", "s", "e">>, i)
        THEN Parsed(PyBool(FALSE), i + 5)
    ELSE NumberFrom(s, i, IntegerEnd(s, i))

\* The value of a member, after its key and the colon at c.
MemberValue(s, c) ==
    IF c > Len(s) \/ s[c] # ":" THEN ParseError
    ELSE ParseValue(s, SkipJsonSpace(s, c + 1))

\* The "key" : value pairs of an object whose first key (or closing brace,
\* when map is still empty) is at i.
ParseMembers(s, i, map) ==
    IF i > Len(s) THEN ParseError
    ELSE IF s[i] = "}" /\ map = EmptyMap THEN Parsed(PyDict(map), i + 1)
    ELSE IF s[i] # Q THEN ParseError
    ELSE AfterMember(s, map, ScanJsonString(s, i + 1, <<>>))

\* After a key: the colon, the value, and then a comma or the closing brace.
AfterMember(s, map, key) ==
    IF ~key.ok THEN ParseError
    ELSE LET val == MemberValue(s, SkipJsonSpace(s, key.next))
         IN IF ~val.ok THEN ParseError
            ELSE LET e == SkipJsonSpace(s, val.next)
                 IN IF e > Len(s) THEN ParseError
                    ELSE IF s[e] = "}"
                        THEN Parsed(PyDict(MapPut(map, key.val.v, val.val)), e + 1)
                    ELSE IF s[e] = ","
                        THEN ParseMembers(s, SkipJsonSpace(s, e + 1),
                                 MapPut(map, key.val.v, val.val))
                    ELSE ParseError

\* The values of an array whose first value (or closing bracket, when elems
\* is still empty) is at i.
ParseElements(s, i, elems) ==
    IF i <= Len(s) /\ s[i] = "]" /\ elems = <<>>
    THEN Parsed(PyList(elems), i + 1)
    ELSE AfterElement(s, elems, ParseValue(s, i))

\* After a value: a comma or the closing bracket.
AfterElement(s, elems, val) ==
    IF ~val.ok THEN ParseError
    ELSE LET e == SkipJsonSpace(s, val.next)
         IN IF e > Len(s) THEN ParseError
            ELSE IF s[e] = "]" THEN Parsed(PyList(Append(elems, val.val)), e + 1)
            ELSE IF s[e] = ","
                THEN ParseElements(s, SkipJsonSpace(s, e + 1), Append(elems, val.val))
            ELSE ParseError

\* The document is the value and nothing but whitespace after it.
WholeDocument(s, val) ==
    IF val.ok /\ SkipJsonSpace(s, val.next) = Len(s) + 1 THEN val ELSE ParseError

\* json.loads(s): the value, or a failure when s is not one JSON document.
json_loads(s) == WholeDocument(s, ParseValue(s, SkipJsonSpace(s, 1)))

(* ------------------------------------------------------------------ *)
(* RSC helpers                                                         *)
(* ------------------------------------------------------------------ *)
RECURSIVE SkipReSpace(_, _)
SkipReSpace(s, i) ==
    IF i <= Len(s) /\ s[i] \in ReSpace THEN SkipReSpace(s, i + 1) ELSE i

RECURSIVE SkipRefChars(_, _)
SkipRefChars(s, i) ==
    IF i <= Len(s) /\ s[i] \in RefChars THEN SkipRefChars(s, i + 1) ELSE i

\* [^"]+ from i: the position of the next double quote (or past the end).
RECURSIVE SkipToQuote(_, _)
SkipToQuote(s, i) ==
    IF i <= Len(s) /\ s[i] # Q THEN SkipToQuote(s, i + 1) ELSE i

\* [^\s,\]\}"]+ from i.
RECURSIVE SkipBareDate(_, _)
SkipBareDate(s, i) ==
    IF i <= Len(s) /\ s[i] \notin (ReSpace \cup {",", "]", "}", Q})
    THEN SkipBareDate(s, i + 1) ELSE i

\* Where the match of pattern number `rule` of normalize_rsc_tokens that
\* starts at i ends (the position after it), or 0 when it does not match.
TokenEnd(rule, s, i) ==
    CASE rule = 1 ->
           LET d == SkipDigits(s, i + 3)
           IN IF StartsAt(s, <<Q, "$", "n">>, i) /\ d > i + 3
                 /\ d <= Len(s) /\ s[d] = Q
              THEN d + 1 ELSE 0
      [] rule = 2 ->
           LET d == SkipDigits(s, i + 2)
           IN IF StartsAt(s, <<"$", "n">>, i) /\ d > i + 2 THEN d ELSE 0
      [] rule = 3 ->
           LET d == SkipToQuote(s, i + 3)
           IN IF StartsAt(s, <<Q, "$", "D">>, i) /\ d > i + 3 /\ d <= Len(s)
              THEN d + 1 ELSE 0
      [] rule = 4 ->
           LET d == SkipBareDate(s, i + 2)
           IN IF StartsAt(s, <<"$", "D">>, i) /\ d > i + 2 THEN d ELSE 0
      [] rule = 5 ->
           LET d == SkipRefChars(s, i + 2)
           IN IF StartsAt(s, <<Q, "$">>, i) /\ d > i + 2
                 /\ d <= Len(s) /\ s[d] = Q
              THEN d + 1 ELSE 0
      [] rule = 6 ->
           LET d == SkipRefChars(s, i + 1)
           IN IF StartsAt(s, <<"$">>, i) /\ d > i + 1 THEN d ELSE 0

\* What the match s[i .. e-1] of pattern `rule` is replaced by.
TokenText(rule, s, i, e) ==
    CASE rule = 1 -> SubSeq(s, i + 3, e - 2)
      [] rule = 2 -> SubSeq(s, i + 2, e - 1)
      [] rule = 3 -> <<Q>> \o SubSeq(s, i + 3, e - 2) \o <<Q>>
      [] rule = 4 -> <<Q>> \o SubSeq(s, i + 2, e - 1) \o <<Q>>
      [] rule = 5 -> <<"n", "u", "l", "l">>
      [] rule = 6 -> <<"n", "u", "l", "l">>

\* re.sub of one pattern: leftmost matches, left to right, not overlapping.
RECURSIVE ReSub(_, _, _, _)
ReSub(rule, s, i, acc) ==
    IF i > Len(s) THEN acc
    ELSE LET e == TokenEnd(rule, s, i)
         IN IF e # 0 THEN ReSub(rule, s, e, acc \o TokenText(rule, s, i, e))
            ELSE ReSub(rule, s, i + 1, Append(acc, s[i]))

\* A variant without the first substitution (quoted numbers).
normalize_without_rule_1(s) ==
    LET s2 == ReSub(2, s, 1, <<>>)
        s3 == ReSub(3, s2, 1, <<>>)
        s4 == ReSub(4, s3, 1, <<>>)
        s5 == ReSub(5, s4, 1, <<>>)
    IN ReSub(6, s5, 1, <<>>)
\* A variant without the last substitution (bare references).
normalize_without_rule_6(s) ==
    LET s1 == ReSub(1, s, 1, <<>>)
        s2 == ReSub(2, s1, 1, <<>>)
        s3 == ReSub(3, s2, 1, <<>>)
        s4 == ReSub(4, s3, 1, <<>>)
    IN ReSub(5, s4, 1, <<>>)
\* The six substitutions, in the order of the source.
normalize_rsc_tokens(s) ==
    LET s1 == ReSub(1, s, 1, <<>>)
        s2 == ReSub(2, s1, 1, <<>>)
        s3 == ReSub(3, s2, 1, <<>>)
        s4 == ReSub(4, s3, 1, <<>>)
        s5 == ReSub(5, s4, 1, <<>>)
    IN ReSub(6, s5, 1, <<>>)

\* ^\s*\d+\s*:\s* (re.M) at i: the position after the match, or 0.
ChunkPrefixEnd(s, i) ==
    IF i # 1 /\ s[i - 1] # NL THEN 0
    ELSE LET a == SkipReSpace(s, i)
             b == SkipDigits(s, a)
             c == SkipReSpace(s, b)
         IN IF b > a /\ c <= Len(s) /\ s[c] = ":"
            THEN SkipReSpace(s, c + 1) ELSE 0

RECURSIVE StripFrom(_, _, _)
StripFrom(s, i, acc) ==
    IF i > Len(s) THEN acc
    ELSE LET e == ChunkPrefixEnd(s, i)
         IN IF e # 0 THEN StripFrom(s, e, acc)
            ELSE StripFrom(s, i + 1, Append(acc, s[i]))

strip_chunk_prefixes(rsc_body) == StripFrom(rsc_body, 1, <<>>)

\* A variant that takes '{' after the key as well: "key"\s*:\s*[\[{].
KeyAnchorAtEither(s, key, i) ==
    LET a == SkipReSpace(s, i + Len(key) + 2)
        b == SkipReSpace(s, a + 1)
    IN IF /\ StartsAt(s, <<Q>> \o key \o <<Q>>, i)
          /\ a <= Len(s) /\ s[a] = ":"
          /\ b <= Len(s) /\ s[b] \in {"[", "{"}
       THEN b ELSE 0

\* "key"\s*:\s*\[ at i: the position of the bracket, or 0.
KeyAnchorAt(s, key, i) ==
    LET a == SkipReSpace(s, i + Len(key) + 2)
        b == SkipReSpace(s, a + 1)
    IN IF /\ StartsAt(s, <<Q>> \o key \o <<Q>>, i)
          /\ a <= Len(s) /\ s[a] = ":"
          /\ b <= Len(s) /\ s[b] = "["
       THEN b ELSE 0

\* The inner loop that skips a string: from the position after its opening
\* quote to the position of its closing quote (or past the end).
\* A variant for which a backslash is a character like any other.
RECURSIVE SkipStringNoEscape(_, _)
SkipStringNoEscape(s, i) ==
    IF i > Len(s) THEN i
    ELSE IF s[i] = Q THEN i
    ELSE SkipStringNoEscape(s, i + 1)

RECURSIVE SkipString(_, _)
SkipString(s, i) ==
    IF i > Len(s) THEN i
    ELSE IF s[i] = BS THEN SkipString(s, i + 2)
    ELSE IF s[i] = Q THEN i
    ELSE SkipString(s, i + 1)

\* The bracket-matching loop from i at the given depth: the position of the
\* closing bracket at which depth returns to zero, or 0 when the text ends.
RECURSIVE MatchEnd(_, _, _, _, _)
MatchEnd(s, i, depth, open, close) ==
    IF i > Len(s) THEN 0
    ELSE IF s[i] = open THEN MatchEnd(s, i + 1, depth + 1, open, close)
    ELSE IF s[i] = close THEN
        IF depth - 1 = 0 THEN i
        ELSE MatchEnd(s, i + 1, depth - 1, open, close)
    ELSE IF s[i] = Q THEN MatchEnd(s, SkipString(s, i + 1) + 1, depth, open, close)
    ELSE MatchEnd(s, i + 1, depth, open, close)

\* try: return json.loads(text) / except: return <nothing>.
LoadsOr(doc, nothing) == IF doc.ok THEN doc.val ELSE nothing

\* A variant that closes a span the text leaves open and parses what is there.
ParseSpanBestEffort(joined, start, end, nothing) ==
    IF end = 0
    THEN LoadsOr(json_loads(normalize_rsc_tokens(
                     SubSeq(joined, start, Len(joined))
                         \o <<IF nothing = None THEN "}" ELSE "]">>)),
                 nothing)
    ELSE LoadsOr(json_loads(normalize_rsc_tokens(SubSeq(joined, start, end))),
                 nothing)

\* A variant that parses the span as it stands, tokens and all.
ParseSpanRaw(joined, start, end, nothing) ==
    IF end = 0 THEN nothing
    ELSE LoadsOr(json_loads(SubSeq(joined, start, end)), nothing)

\* The span from start to its matching bracket, normalized and parsed.
ParseSpan(joined, start, end, nothing) ==
    IF end = 0 THEN nothing
    ELSE LoadsOr(json_loads(normalize_rsc_tokens(SubSeq(joined, start, end))),
                 nothing)

\* The first position from i on at which "key"\s*:\s*\[ matches, or 0.
RECURSIVE KeySearch(_, _, _)
KeySearch(s, key, i) ==
    IF i > Len(s) THEN 0
    ELSE IF KeyAnchorAt(s, key, i) # 0 THEN i
    ELSE KeySearch(s, key, i + 1)

ArrayAt(joined, start) ==
    ParseSpan(joined, start, MatchEnd(joined, start, 0, "[", "]"), PyList(<<>>))
ArrayFrom(joined, key, m) ==
    IF m = 0 THEN PyList(<<>>) ELSE ArrayAt(joined, KeyAnchorAt(joined, key, m))
ArrayIn(joined, key) == ArrayFrom(joined, key, KeySearch(joined, key, 1))

\* The list parsed from the span of "key": [ ... ] (as the sequence of its
\* elements), or [] when there is none.
extract_json_array_from_rsc(body_text, key) ==
    ArrayIn(strip_chunk_prefixes(body_text), key).v

\* Walk left from pos to a '{' (or to the first character).
RECURSIVE WalkLeft(_, _)
WalkLeft(s, start) ==
    IF start > 1 /\ s[start] # "{" THEN WalkLeft(s, start - 1) ELSE start

\* joined.find(anchor) from i: the first position of anchor, or 0.
RECURSIVE Find(_, _, _)
Find(s, anchor, i) ==
    IF i + Len(anchor) - 1 > Len(s) THEN 0
    ELSE IF StartsAt(s, anchor, i) THEN i
    ELSE Find(s, anchor, i + 1)

ObjectAt(joined, start) ==
    ParseSpan(joined, start, MatchEnd(joined, start, 0, "{", "}"), None)
ObjectFrom(joined, pos) ==
    IF pos = 0 THEN None ELSE ObjectAt(joined, WalkLeft(joined, pos))
ObjectIn(joined, anchor) == ObjectFrom(joined, Find(joined, anchor, 1))

\* The object parsed from the span around "id":"<target_id>", or None.
extract_first_object_with_id(body_text, target_id) ==
    ObjectIn(strip_chunk_prefixes(body_text),
             <<Q, "i", "d", Q, ":", Q>> \o target_id \o <<Q>>)

(* ------------------------------------------------------------------ *)
(* Responses the endpoint can give                                     *)
(* ------------------------------------------------------------------ *)
DATASETS == <<"d", "a", "t", "a", "s", "e", "t", "s">>
Str(chars) == <<Q>> \o chars \o <<Q>>
Field(key, text) == Str(key) \o <<":">> \o text
Obj(members) == <<"{">> \o members \o <<"}">>

\* Texts of the elements of a "datasets" array.
ElemA == Obj(Field(ID, Str(<<"a">>)))
ElemB == Obj(Field(ID, Str(<<"b">>)))
ElemZero == Obj(Field(ID, Str(<<"$", "n", "0">>)))
ElemNoId == Obj(Field(<<"x">>, Str(<<"a">>)))
ElemScalar == Str(<<"$", "n", "1">>)

\* 0:{"datasets":[ ... ]}
PageText(elems) ==
    <<"0", ":">> \o Obj(Field(DATASETS, <<"[">> \o elems \o <<"]">>))

\* Bodies of the responses to the list POSTs: pages of zero to two elements
\* (objects with a string id, with the numeric id 0, without id; a number)
\* and a body without the "datasets" key.
PageBodies ==
    { PageText(<<>>),
      PageText(ElemA), PageText(ElemB), PageText(ElemZero),
      PageText(ElemNoId), PageText(ElemScalar),
      PageText(ElemA \o <<",">> \o ElemB),
      PageText(ElemB \o <<",">> \o ElemA),
      PageText(ElemScalar \o <<",">> \o ElemA),
      <<"1", ":">> \o Obj(Field(<<"x">>, <<"[", "]">>)) }

\* Bodies of the responses to the detail GET of ds_id:
\*   {"id":"<ds_id>","n":"x"}        the object of the identifier
\*   {"o":{"n":"x"},"id":"<ds_id>"}  a nested object before the id field
\*   {"n":"x"}                       no "id":"<ds_id>" at all
DetailBodies(ds_id) ==
    { <<"1", ":">> \o Obj(Field(ID, Str(ds_id)) \o <<",">>
                          \o Field(<<"n">>, Str(<<"x">>))),
      Obj(Field(<<"o">>, Obj(Field(<<"n">>, Str(<<"x">>)))) \o <<",">>
          \o Field(ID, Str(ds_id))),
      Obj(Field(<<"n">>, Str(<<"x">>))) }

\* href values of the anchors of a markup document.
Hrefs ==
    { <<"/", "d", "a", "t", "a", "s", "e", "t", "s", "/", "a">>,
      <<"/", "d", "a", "t", "a", "s", "e", "t", "s", "/", "b">>,
      <<"/", "a", "b", "o", "u", "t">> }

RECURSIVE SeqsUpTo(_, _)
SeqsUpTo(S, n) ==
    IF n = 0 THEN {<<>>}
    ELSE LET shorter == SeqsUpTo(S, n - 1)
         IN shorter \cup {Append(q, x) : q \in shorter, x \in S}

\* The page size, PAGE_LIMIT of the source.
PAGE_LIMIT == 24
Alphabet == <<"a", "b", "c", "d", "e", "f", "g", "h", "i", "j", "k", "l", "m",
              "n", "o", "p", "q", "r", "s", "t", "u", "v", "w", "x", "y", "z">>
DatasetsPath == <<"/", "d", "a", "t", "a", "s", "e", "t", "s", "/">>
\* A listing with more links than a page holds: /datasets/a, /datasets/b, ...
LongMarkup == [k \in 1..(PAGE_LIMIT + 2) |-> DatasetsPath \o <<Alphabet[k]>>]
\* The listing with the links a, b, a.
RepeatingMarkup ==
    <<DatasetsPath \o <<"a">>, DatasetsPath \o <<"b">>, DatasetsPath \o <<"a">>>>

\* A markup document, as the href values of its a[href] elements in order.
Markups == SeqsUpTo(Hrefs, MaxLinks) \cup {LongMarkup, RepeatingMarkup}

\* A response: the request raised (kind "raise"), or it returned with a
\* status code, a body text and (for markup) the hrefs of its anchors.
Response(status_code, text, links) ==
    [kind |-> "response", status_code |-> status_code, text |-> text, links |-> links]
Raised == [kind |-> "raise", status_code |-> 0, text |-> <<>>, links |-> <<>>]
NoResponse == [kind |-> "none", status_code |-> 0, text |-> <<>>, links |-> <<>>]
ErrorStatuses == {404, 500}

\* An error response to a list POST still carries a body.
PageResponses ==
    {Response(200, b, <<>>) : b \in PageBodies}
      \cup {Response(c, PageText(ElemA), <<>>) : c \in ErrorStatuses}
      \cup {Raised}
DetailResponses(ds_id) ==
    {Response(200, b, <<>>) : b \in DetailBodies(ds_id)}
      \cup {Response(c, <<>>, <<>>) : c \in ErrorStatuses} \cup {Raised}
MarkupResponses ==
    {Response(200, <<>>, m) : m \in Markups}
      \cup {Response(c, <<>>, <<>>) : c \in ErrorStatuses} \cup {Raised}

\* The decoders' results on the bodies above, computed once (@@ makes a
\* table an explicit function, so that a lookup computes nothing).
NoEntries == [x \in {} |-> None]
DecodedPage ==
    [body \in PageBodies |-> extract_json_array_from_rsc(body, DATASETS)]
        @@ NoEntries
SeedIds == {<<c>> : c \in Lower}
DecodedDetail ==
    [ds_id \in SeedIds |->
        [body \in DetailBodies(ds_id) |->
            extract_first_object_with_id(body, ds_id)] @@ NoEntries]
        @@ NoEntries

(* ------------------------------------------------------------------ *)
(* Fallback discovery                                                  *)
(* ------------------------------------------------------------------ *)

RECURSIVE SkipIdChars(_, _)
SkipIdChars(s, i) ==
    IF i <= Len(s) /\ s[i] \in IdChars THEN SkipIdChars(s, i + 1) ELSE i

\* re.match(r"^/datasets/([a-z0-9]+)$", href): the group, or the empty
\* sequence when href does not match ($ also matches before a last newline).
DatasetHrefId(href) ==
    LET prefix == <<"/", "d", "a", "t", "a", "s", "e", "t", "s", "/">>
        e == SkipIdChars(href, Len(prefix) + 1)
    IN IF /\ StartsAt(href, prefix, 1)
          /\ e > Len(prefix) + 1
          /\ \/ e = Len(href) + 1
             \/ e = Len(href) /\ href[e] = NL
       THEN SubSeq(href, Len(prefix) + 1, e - 1) ELSE <<>>

\* ids of the matching links, in document order.
RECURSIVE MatchedIds(_, _)
MatchedIds(links, acc) ==
    IF links = <<>> THEN acc
    ELSE LET id == DatasetHrefId(Head(links))
         IN MatchedIds(Tail(links), IF id = <<>> THEN acc ELSE Append(acc, id))

\* A variant that keeps every id, repeated or not.
OrderedUniqueKeepAll(idlist, ordered) == ordered \o idlist
\* keep order, unique
RECURSIVE OrderedUnique(_, _)
OrderedUnique(idlist, ordered) ==
    IF idlist = <<>> THEN ordered
    ELSE LET h == Head(idlist)
         IN OrderedUnique(Tail(idlist),
                IF \E k \in 1..Len(ordered) : ordered[k] = h THEN ordered
                ELSE Append(ordered, h))

\* The seed list scraped from a markup document's links.
get_initial_ids_from_html(links) ==
    LET ordered == OrderedUnique(MatchedIds(links, <<>>), <<>>)
    IN SubSeq(ordered, 1, Min(PAGE_LIMIT, Len(ordered)))

(* ------------------------------------------------------------------ *)
(* The crawl of main()                                                 *)
(* ------------------------------------------------------------------ *)
VARIABLES
    pc,             \* where main is: "initial", "html", "detail", "more",
                    \* "write", "done" (returned) or "failed" (an exception left main)
    payload,        \* get_initial_via_post: 1 = no lastId key, 2 = lastId ""
    r,              \* the response of the latest request
    init_rows,      \* main: what get_initial_via_post returned
    all_rows,       \* main: the accumulated records
    last_id,        \* main: the cursor
    ids,            \* main: the seed list of the fallback
    ds_idx,         \* main: how many seeds the for loop has handled
    rows,           \* main: the page of the latest post_load_more
    next_last,      \* main: the cursor computed by the latest post_load_more
    page,           \* main: the number of the page the loop asks for next
    error,          \* the exception that left main ("" when none)
    csv,            \* whether write_csv was called, with what, and whether
                    \* it wrote the file
    log,            \* the requests and sleeps so far, in order
    BeautifulSoup,  \* whether bs4 could be imported
    NEXT_ACTION     \* the configured server-action identifier ("" when missing)

\* A decoder function applied on its own to one text.
VARIABLES
    fn,             \* the function applied ("main" for the crawl)
    raw_text,       \* its text argument: s, or body_text
    anchor_arg,     \* its second argument: key, or target_id
    joined_text,    \* extractors: joined, the text after strip_chunk_prefixes
    span,           \* extractors: start and end of the span that was cut
                    \* out of joined (1-based; 0 when there is none)
    out,            \* what the function returned
    returned        \* whether it has returned

decoding == <<fn, raw_text, anchor_arg, joined_text, span, out, returned>>
crawling == <<pc, payload, r, init_rows, all_rows, last_id, ids, ds_idx, rows,
              next_last, page, error, csv, log, BeautifulSoup, NEXT_ACTION>>

\* DataCollective: the constructor and one call of get_dataset.
VARIABLES
    dc_pc,          \* "idle" (no client in this behaviour), "new" (before
                    \* __init__), "ready" (constructed), "file" (get_dataset
                    \* before the GET of the file), "returned" or "raised"
    api_key,        \* __init__: the api_key argument
    MDC_API_KEY,    \* the environment variable once the .env file is loaded
    self_api_key,   \* self.api_key
    response_data,  \* get_dataset: the parsed answer of the download session
    dc_requests,    \* the requests the client issued, in order
    dc_return,      \* what get_dataset returned
    dc_raised       \* the exception that left __init__ or get_dataset ("" when none)

client == <<dc_pc, api_key, MDC_API_KEY, self_api_key, response_data,
            dc_requests, dc_return, dc_raised>>

\* accept_terms.
VARIABLES
    at_pc,          \* "idle" (accept_terms is not called), "start", "try"
                    \* (in the loop over the candidates), "returned" or "raised"
    terms_id,       \* the terms id found in the dataset page
    action_ids,     \* the candidate action ids, in discovery order
    aid_idx,        \* how many candidates the loop has handled
    last_status,    \* last_status of the loop
    at_requests,    \* the requests accept_terms issued, in order
    at_raised       \* the exception that left accept_terms ("" when none)

accepting == <<at_pc, terms_id, action_ids, aid_idx, last_status, at_requests,
               at_raised>>

vars == <<pc, payload, r, init_rows, all_rows, last_id, ids, ds_idx, rows,
          next_last, page, error, csv, log, BeautifulSoup, NEXT_ACTION,
          fn, raw_text, anchor_arg, joined_text, span, out, returned,
          dc_pc, api_key, MDC_API_KEY, self_api_key, response_data,
          dc_requests, dc_return, dc_raised,
          at_pc, terms_id, action_ids, aid_idx, last_status, at_requests,
          at_raised>>

\* No client is constructed and accept_terms is not called.
ClientIdle ==
    /\ dc_pc = "idle"
    /\ api_key = None
    /\ MDC_API_KEY = None
    /\ self_api_key = None
    /\ response_data = None
    /\ dc_requests = <<>>
    /\ dc_return = None
    /\ dc_raised = ""
AcceptIdle ==
    /\ at_pc = "idle"
    /\ terms_id = None
    /\ action_ids = <<>>
    /\ aid_idx = 0
    /\ last_status = <<>>
    /\ at_requests = <<>>
    /\ at_raised = ""

\* A crawl that never stops appends and counts without end: all_rows and log
\* are followed up to a fixed length (only their prefix is kept beyond it)
\* and page up to a fixed number.
Keep(s, n) == SubSeq(s, 1, Min(n, Len(s)))
MaxLog == 2 * MaxRows + 2 * MaxLinks + 6
\* A variant that keeps only the last record of what is appended.
ExtendLastOnly(records, more) == Keep(Append(records, Last(more)), MaxRows + 1)
Extend(records, more) == Keep(records \o more, MaxRows + 1)
Logged(events) == Keep(log \o events, MaxLog + 1)
NextPage(n) == Min(n + 1, MaxRows + 3)
\* all_rows and log hold everything that was appended, and page is exact.
Exact == Len(all_rows) <= MaxRows /\ Len(log) <= MaxLog /\ page <= MaxRows + 2

Call(name, arg) == [call |-> name, arg |-> arg]
\* The lastId of the payloads of get_initial_via_post: no key, then "".
\* A variant in which both payloads carry the empty lastId.
InitialLastIdEmpty(n) == PyStr(<<>>)
InitialLastId(n) == IF n = 1 THEN None ELSE PyStr(<<>>)
Sleep == Call("sleep", None)

\* row["id"]: the value, or the exception the subscript raises.
Subscript(row) ==
    IF row.t # "dict" THEN [ok |-> FALSE, val |-> None, error |-> "TypeError"]
    ELSE IF ID \notin DOMAIN row.v
        THEN [ok |-> FALSE, val |-> None, error |-> "KeyError"]
    ELSE [ok |-> TRUE, val |-> row.v[ID], error |-> ""]

\* A variant that enters the loop whatever the cursor is.
LoopHeadAlways(cursor) == "more"
\* `while last_id:` the loop runs again when the cursor is truthy.
LoopHead(cursor) == IF Truthy(cursor) THEN "more" ELSE "write"

\* A variant that leaves the loop on an empty page only.
BreaksOnEmptyOnly(got, next, cursor) == got = <<>>
\* `if not rows or next_last == last_id: break`
Breaks(got, next, cursor) == got = <<>> \/ PyEq(next, cursor)

\* A variant of a request that never checks the status.
raise_for_status_never(resp) == FALSE
\* r.raise_for_status(): raises HTTPError for a 4xx or 5xx status.
raise_for_status(resp) == resp.status_code >= 400

\* The number of payloads get_initial_via_post tries.
Payloads == 2

NoSpan == [start |-> 0, end |-> 0]

\* The literal of NEXT_ACTION, and the values the identifier is configured
\* with: that literal, or nothing.
ActionLiteral == "407ce5370400fda06eccef00a55d6a3c4e59ed8291"
ConfiguredActions == {ActionLiteral, ""}

Init ==
    /\ pc = "initial"
    /\ payload = 1
    /\ r = NoResponse
    /\ init_rows = <<>>
    /\ all_rows = <<>>
    /\ last_id = None
    /\ ids = <<>>
    /\ ds_idx = 0
    /\ rows = <<>>
    /\ next_last = None
    /\ page = 2
    /\ error = ""
    /\ csv = [called |-> FALSE, rows |-> <<>>, written |-> FALSE]
    /\ log = <<>>
    /\ BeautifulSoup \in BOOLEAN
    /\ NEXT_ACTION \in ConfiguredActions
    /\ ClientIdle
    /\ AcceptIdle
    /\ fn = "main"
    /\ raw_text = <<>>
    /\ anchor_arg = <<>>
    /\ joined_text = <<>>
    /\ span = NoSpan
    /\ out = None
    /\ returned = FALSE

\* One POST of get_initial_via_post; when that function returns, main's
\* branch on init_rows up to the next request.
InitialPost(resp) ==
    /\ pc = "initial"
    /\ r' = resp
    /\ log' = Logged(<<Call("post_initial", InitialLastId(payload))>>)
    /\ UNCHANGED <<ids, ds_idx, rows, next_last, page, csv, BeautifulSoup, NEXT_ACTION, decoding, client, accepting>>
    /\ IF resp.kind = "raise"
       THEN /\ pc' = "failed" /\ error' = "RequestException"
            /\ UNCHANGED <<payload, init_rows, all_rows, last_id>>
       ELSE LET got == IF resp.status_code >= 400 THEN <<>>
                       ELSE DecodedPage[resp.text]
            IN IF got = <<>> /\ payload < Payloads
               THEN /\ payload' = payload + 1
                    /\ UNCHANGED <<pc, init_rows, all_rows, last_id, error>>
               ELSE /\ init_rows' = got
                    /\ UNCHANGED payload
                    /\ IF got # <<>>
                       THEN LET id == Subscript(Last(got))
                            IN /\ all_rows' = Extend(all_rows, got)
                               /\ IF id.ok
                                  THEN /\ last_id' = id.val
                                       /\ pc' = LoopHead(id.val)
                                       /\ UNCHANGED error
                                  ELSE /\ pc' = "failed" /\ error' = id.error
                                       /\ UNCHANGED last_id
                       ELSE /\ pc' = "html"
                            /\ UNCHANGED <<all_rows, last_id, error>>

\* get_initial_ids_from_html with bs4 present: the GET of the listing page,
\* then main up to the first detail request or the loop head.
HtmlGet(resp) ==
    /\ pc = "html"
    /\ BeautifulSoup
    /\ r' = resp
    /\ log' = Logged(<<Call("get_html", None)>>)
    /\ UNCHANGED <<payload, init_rows, all_rows, ds_idx, rows, next_last, page,
                   csv, BeautifulSoup, NEXT_ACTION, decoding, client, accepting>>
    /\ IF resp.kind = "raise"
       THEN /\ pc' = "failed" /\ error' = "RequestException"
            /\ UNCHANGED <<ids, last_id>>
       ELSE IF raise_for_status(resp)
       THEN /\ pc' = "failed" /\ error' = "HTTPError"
            /\ UNCHANGED <<ids, last_id>>
       ELSE LET found == get_initial_ids_from_html(resp.links)
            IN /\ ids' = found
               /\ UNCHANGED error
               /\ IF found = <<>>
                  THEN last_id' = None /\ pc' = LoopHead(None)
                  ELSE pc' = "detail" /\ UNCHANGED last_id

\* get_initial_ids_from_html without bs4: no request, no seeds.
HtmlSkip ==
    /\ pc = "html"
    /\ ~BeautifulSoup
    /\ ids' = <<>>
    /\ last_id' = None
    /\ pc' = LoopHead(None)
    /\ UNCHANGED <<payload, r, init_rows, all_rows, ds_idx, rows, next_last,
                   page, error, csv, log, BeautifulSoup, NEXT_ACTION, decoding, client, accepting>>

\* One turn of `for ds_id in ids`: the sleep, get_detail_for_id, the append;
\* after the last seed, last_id = ids[-1] and the loop head.
DetailGet(resp) ==
    LET ds_id == ids[ds_idx + 1]
        obj == IF resp.status_code >= 400 THEN None
               ELSE DecodedDetail[ds_id][resp.text]
    IN /\ pc = "detail"
       /\ r' = resp
       /\ log' = Logged(<<Sleep, Call("get_detail", PyStr(ds_id))>>)
       /\ UNCHANGED <<payload, init_rows, ids, rows, next_last, page, csv,
                      BeautifulSoup, NEXT_ACTION, decoding, client, accepting>>
       /\ IF resp.kind = "raise"
          THEN /\ pc' = "failed" /\ error' = "RequestException"
               /\ UNCHANGED <<all_rows, ds_idx, last_id>>
          ELSE /\ all_rows' = Extend(all_rows,
                       <<IF Truthy(obj) THEN obj ELSE MinimalRecord(ds_id)>>)
               /\ ds_idx' = ds_idx + 1
               /\ UNCHANGED error
               /\ IF ds_idx + 1 = Len(ids)
                  THEN /\ last_id' = PyStr(Last(ids))
                       /\ pc' = LoopHead(PyStr(Last(ids)))
                  ELSE UNCHANGED <<pc, last_id>>

\* One turn of `while last_id`: the sleep, post_load_more, the stall test,
\* the extend, and the loop head.
PostLoadMore(resp) ==
    /\ pc = "more"
    /\ r' = resp
    /\ log' = Logged(<<Sleep, Call("post_load_more", last_id)>>)
    /\ UNCHANGED <<payload, init_rows, ids, ds_idx, csv, BeautifulSoup, NEXT_ACTION, decoding, client, accepting>>
    /\ IF resp.kind = "raise"
       THEN /\ pc' = "failed" /\ error' = "RequestException"
            /\ UNCHANGED <<all_rows, last_id, rows, next_last, page>>
       ELSE IF raise_for_status(resp)
       THEN /\ pc' = "failed" /\ error' = "HTTPError"
            /\ UNCHANGED <<all_rows, last_id, rows, next_last, page>>
       ELSE LET got == DecodedPage[resp.text]
                id == IF got # <<>> THEN Subscript(Last(got))
                      ELSE [ok |-> TRUE, val |-> None, error |-> ""]
            IN IF ~id.ok
               THEN /\ pc' = "failed" /\ error' = id.error
                    /\ UNCHANGED <<all_rows, last_id, rows, next_last, page>>
               ELSE /\ rows' = got
                    /\ next_last' = id.val
                    /\ UNCHANGED error
                    /\ IF Breaks(got, id.val, last_id)
                       THEN pc' = "write" /\ UNCHANGED <<all_rows, last_id, page>>
                       ELSE /\ all_rows' = Extend(all_rows, got)
                            /\ last_id' = id.val
                            /\ page' = NextPage(page)
                            /\ pc' = LoopHead(id.val)

\* write_csv(all_rows, OUT_CSV): flatten calls .items() on every row.
WriteCsv ==
    /\ pc = "write"
    /\ IF \A k \in 1..Len(all_rows) : all_rows[k].t = "dict"
       THEN /\ csv' = [called |-> TRUE, rows |-> all_rows, written |-> TRUE]
            /\ pc' = "done"
            /\ UNCHANGED error
       ELSE /\ csv' = [called |-> TRUE, rows |-> all_rows, written |-> FALSE]
            /\ pc' = "failed" /\ error' = "AttributeError"
    /\ UNCHANGED <<payload, r, init_rows, all_rows, last_id, ids, ds_idx, rows,
                   next_last, page, log, BeautifulSoup, NEXT_ACTION, decoding, client, accepting>>

\* The crawl against an endpoint that serves at most MaxRows records.
Next ==
    \/ \E resp \in PageResponses : InitialPost(resp) /\ Exact'
    \/ \E resp \in MarkupResponses : HtmlGet(resp) /\ Exact'
    \/ HtmlSkip
    \/ pc = "detail"
       /\ \E resp \in DetailResponses(ids[ds_idx + 1]) : DetailGet(resp) /\ Exact'
    \/ \E resp \in PageResponses : PostLoadMore(resp) /\ Exact'
    \/ WriteCsv

Spec == Init /\ [][Next]_vars

\* The crawl against any endpoint; every request returns or raises, so the
\* program always takes its next step.
LiveNext ==
    \/ \E resp \in PageResponses : InitialPost(resp)
    \/ \E resp \in MarkupResponses : HtmlGet(resp)
    \/ HtmlSkip
    \/ pc = "detail"
       /\ \E resp \in DetailResponses(ids[ds_idx + 1]) : DetailGet(resp)
    \/ \E resp \in PageResponses : PostLoadMore(resp)
    \/ WriteCsv

LiveSpec == Init /\ [][LiveNext]_vars /\ WF_vars(LiveNext)

(* ------------------------------------------------------------------ *)
(* The decoder functions on their own                                  *)
(* ------------------------------------------------------------------ *)
\* Longest text of the characters of the tokens.
MaxText == 4
\* Longest text after the opening bracket of a key's value.
MaxBody == 4
\* Largest number of pieces of a text around an "id":"a" field.
MaxPieces == 4
\* Longest payload of a token put between other characters.
MaxPayload == 3

\* All the texts of at most n characters of S.
Texts(S, n) == UNION {[1..k -> S] : k \in 0..n}

\* Characters the rules of normalize_rsc_tokens look at.
TokenChars == {Q, "$", "n", "D", "1", ",", "@"}
Payloads1 == Texts(TokenChars \ {Q}, MaxPayload) \ {<<>>}
\* A token: "$<p>" or $<p>, with p a payload that may start with n or D.
Tokens == {<<Q, "$">> \o p \o <<Q>> : p \in Payloads1}
              \cup {<<"$">> \o p : p \in Payloads1}
\* A token between at most one character on either side.
ContextChars == {Q, "$", "1", ","}
TokensInContext ==
    {pre \o tok \o post : pre \in Texts(ContextChars, 1), tok \in Tokens,
                          post \in Texts(ContextChars, 1)}
\* The texts normalize_rsc_tokens is applied to.
TokenTexts == Texts(TokenChars, MaxText) \cup TokensInContext

\* The key and the identifier the extractors are asked for.
KEY == <<"k">>
TARGET == <<"a">>
\* Characters the bracket matching looks at.
SpanChars == {"[", "]", "{", "}", Q, BS}
\* What comes before the body: the key with an array, with an object, in a
\* chunk with a prefix and white space, and no key at all.
Heads ==
    { Str(KEY) \o <<":", "[">>,
      Str(KEY) \o <<":", "{">>,
      <<"0", ":", "{">> \o Str(KEY) \o <<":", " ", "[">>,
      <<>> }
RECURSIVE Concat(_)
Concat(parts) == IF parts = <<>> THEN <<>> ELSE Head(parts) \o Concat(Tail(parts))
\* What a string literal is made of: brackets, braces, an escaped quote, an
\* escaped backslash.
StringItems == {<<"[">>, <<"]">>, <<"{">>, <<"}">>, <<BS, Q>>, <<BS, BS>>}
\* Bodies that are one string literal and the closing bracket.
QuotedBodies ==
    {<<Q>> \o Concat(items) \o <<Q, "]">> : items \in Texts(StringItems, 2)}
\* The texts extract_json_array_from_rsc is applied to.
KeyTexts ==
    {h \o b : h \in Heads, b \in Texts(SpanChars, MaxBody) \cup QuotedBodies}

\* The pieces of a text around the field "id":"a": braces, the field, the
\* start of a nested object, a whole object before it, another field.
Pieces ==
    { <<"{">>, <<"}">>,
      Field(ID, Str(TARGET)),
      Str(<<"o">>) \o <<":", "{">>,
      Field(<<"o">>, <<"{", "}">>) \o <<",">>,
      <<",">> \o Field(<<"n">>, <<"1">>) }
\* The texts extract_first_object_with_id is applied to.
IdTexts == {Concat(parts) : parts \in Texts(Pieces, MaxPieces)}

\* Largest number of records in a chunk.
MaxRecords == 2
\* Numeric prefixes of a chunk line, with and without white space.
ChunkPrefixes == {<<"0", ":">>, <<"1", "2", ":">>, <<" ", "3", " ", ":", " ">>}
\* The digits of the numeric ids of a chunk's records.
IdNumbers == {<<"1">>, <<"2">>, <<"1", "0">>}
\* {"id":"$n<digits>"}
NumericRecord(digits) == Obj(Field(ID, Str(<<"$", "n">> \o digits)))
RECURSIVE Joined(_, _)
\* The texts of parts with sep between them.
Joined(parts, sep) ==
    IF parts = <<>> THEN <<>>
    ELSE IF Len(parts) = 1 THEN parts[1]
    ELSE parts[1] \o sep \o Joined(Tail(parts), sep)
\* <prefix>{"datasets":[{"id":"$n1"},{"id":"$n2"}]}
Chunk(prefix, numbers) ==
    prefix \o Obj(Field(DATASETS,
        <<"[">> \o Joined([k \in 1..Len(numbers) |-> NumericRecord(numbers[k])],
                           <<",">>) \o <<"]">>))
\* The raw chunks decoded end to end.
ChunkTexts ==
    {Chunk(p, ns) : p \in ChunkPrefixes, ns \in Texts(IdNumbers, MaxRecords)}

\* Largest number of characters of a prose string value.
MaxProse == 3
\* Ordinary string values: letters, blanks, a dollar sign and a digit.
ProseChars == {"a", " ", "$", "5"}
ProseBodies == Texts(ProseChars, MaxProse)
\* "k":["<body>"]
ProseText(b) == <<Q>> \o KEY \o <<Q, ":", "[", Q>> \o b \o <<Q, "]">>
ProseTexts == {ProseText(b) : b \in ProseBodies}

DecodeInit ==
    /\ pc = "initial"
    /\ payload = 1
    /\ r = NoResponse
    /\ init_rows = <<>>
    /\ all_rows = <<>>
    /\ last_id = None
    /\ ids = <<>>
    /\ ds_idx = 0
    /\ rows = <<>>
    /\ next_last = None
    /\ page = 2
    /\ error = ""
    /\ csv = [called |-> FALSE, rows |-> <<>>, written |-> FALSE]
    /\ log = <<>>
    /\ BeautifulSoup = TRUE
    /\ NEXT_ACTION = ActionLiteral
    /\ ClientIdle
    /\ AcceptIdle
    /\ joined_text = <<>>
    /\ span = NoSpan
    /\ out = None
    /\ returned = FALSE
    /\ \/ /\ fn = "normalize_rsc_tokens"
          /\ raw_text \in TokenTexts
          /\ anchor_arg = <<>>
       \/ /\ fn = "extract_json_array_from_rsc"
          /\ raw_text \in KeyTexts
          /\ anchor_arg = KEY
       \/ /\ fn = "extract_json_array_from_rsc"
          /\ raw_text \in ChunkTexts
          /\ anchor_arg = DATASETS
       \/ /\ fn = "extract_json_array_from_rsc"
          /\ raw_text \in ProseTexts
          /\ anchor_arg = KEY
       \/ /\ fn = "extract_first_object_with_id"
          /\ raw_text \in IdTexts
          /\ anchor_arg = TARGET

\* normalize_rsc_tokens(text)
Normalize ==
    /\ fn = "normalize_rsc_tokens"
    /\ ~returned
    /\ out' = normalize_rsc_tokens(raw_text)
    /\ returned' = TRUE
    /\ UNCHANGED <<crawling, client, accepting, fn, raw_text, anchor_arg, joined_text, span>>

\* The span extract_json_array_from_rsc cuts out of joined for key.
ArraySpan(s, key, m) ==
    IF m = 0 THEN NoSpan
    ELSE [start |-> KeyAnchorAt(s, key, m),
          end |-> MatchEnd(s, KeyAnchorAt(s, key, m), 0, "[", "]")]

\* extract_json_array_from_rsc(text, anchor)
ExtractArray ==
    /\ fn = "extract_json_array_from_rsc"
    /\ ~returned
    /\ joined_text' = strip_chunk_prefixes(raw_text)
    /\ span' = ArraySpan(joined_text', anchor_arg, KeySearch(joined_text', anchor_arg, 1))
    /\ out' = extract_json_array_from_rsc(raw_text, anchor_arg)
    /\ returned' = TRUE
    /\ UNCHANGED <<crawling, client, accepting, fn, raw_text, anchor_arg>>

\* "id":"<target_id>"
IdAnchor(target_id) == <<Q, "i", "d", Q, ":", Q>> \o target_id \o <<Q>>
\* The span extract_first_object_with_id cuts out of joined around pos.
ObjectSpan(s, pos) ==
    IF pos = 0 THEN NoSpan
    ELSE [start |-> WalkLeft(s, pos),
          end |-> MatchEnd(s, WalkLeft(s, pos), 0, "{", "}")]

\* extract_first_object_with_id(text, anchor)
ExtractObject ==
    /\ fn = "extract_first_object_with_id"
    /\ ~returned
    /\ joined_text' = strip_chunk_prefixes(raw_text)
    /\ span' = ObjectSpan(joined_text', Find(joined_text', IdAnchor(anchor_arg), 1))
    /\ out' = extract_first_object_with_id(raw_text, anchor_arg)
    /\ returned' = TRUE
    /\ UNCHANGED <<crawling, client, accepting, fn, raw_text, anchor_arg>>

DecodeNext ==
    \/ Normalize
    \/ ExtractArray
    \/ ExtractObject

DecodeSpec == DecodeInit /\ [][DecodeNext]_vars

(* ------------------------------------------------------------------ *)
(* The DataCollective client of client.py                              *)
(* ------------------------------------------------------------------ *)
\* main is not run and no decoder function is applied.
CrawlIdle ==
    /\ pc = "initial"
    /\ payload = 1
    /\ r = NoResponse
    /\ init_rows = <<>>
    /\ all_rows = <<>>
    /\ last_id = None
    /\ ids = <<>>
    /\ ds_idx = 0
    /\ rows = <<>>
    /\ next_last = None
    /\ page = 2
    /\ error = ""
    /\ csv = [called |-> FALSE, rows |-> <<>>, written |-> FALSE]
    /\ log = <<>>
    /\ BeautifulSoup = TRUE
    /\ NEXT_ACTION = ActionLiteral
DecodeIdle ==
    /\ fn = "main"
    /\ raw_text = <<>>
    /\ anchor_arg = <<>>
    /\ joined_text = <<>>
    /\ span = NoSpan
    /\ out = None
    /\ returned = FALSE

\* The api_key argument, and MDC_API_KEY as os.getenv gives it: nothing,
\* an empty text or a key.
ApiKeys == {None, PyStr(<<>>), PyStr(<<"k">>)}
EnvKeys == {None, PyStr(<<>>), PyStr(<<"e">>)}

\* x or y of Python.
PyOr(x, y) == IF Truthy(x) THEN x ELSE y

\* self.download_path once expanded, and os.path.join(a, b).
DOWNLOAD_PATH == <<"/", "d">>
PathJoin(a, b) ==
    IF b # <<>> /\ b[1] = "/" THEN b
    ELSE IF a = <<>> \/ Last(a) = "/" THEN a \o b
    ELSE a \o <<"/">> \o b

\* The keys get_dataset reads in the answer of the download session, and
\* the values the model gives them.
ERROR == "error"
DOWNLOAD_URL == "downloadUrl"
FILENAME == "filename"
SessionKeys == {ERROR, DOWNLOAD_URL, FILENAME}
RateLimitExceeded == PyStr(<<"R">>)
SessionValues(k) ==
    CASE k = ERROR -> {RateLimitExceeded, PyStr(<<"E">>)}
      [] k = DOWNLOAD_URL -> {PyStr(<<"u">>)}
      [] k = FILENAME -> {PyStr(<<"f">>), PyStr(<<"/", "f">>)}
SessionDicts ==
    {PyDict(m) : m \in UNION {{f \in [K -> UNION {SessionValues(k) : k \in K}] :
                                  \A k \in K : f[k] \in SessionValues(k)}
                              : K \in SUBSET SessionKeys}}
\* A body that is no JSON document.
NotJson == [t |-> "invalid", v |-> <<>>]
\* What the body of a download-session answer parses to: an object, an
\* empty array, null, or nothing.
SessionData == SessionDicts \cup {PyList(<<>>), None, NotJson}

SessionAnswer(status_code, data) ==
    [kind |-> "response", status_code |-> status_code, data |-> data]
SessionRaised == [kind |-> "raise", status_code |-> 0, data |-> None]
RATE_LIMITED == 429
SessionResponses ==
    {SessionAnswer(200, d) : d \in SessionData}
      \cup {SessionAnswer(c, NotJson) : c \in ErrorStatuses \cup {RATE_LIMITED}}
      \cup {SessionRaised}
\* What r.json() raises on a body that is no JSON: a RequestException
\* (requests.exceptions.JSONDecodeError) or, with an older requests, a
\* plain ValueError.
JsonErrors == {"RequestException", "ValueError"}

\* key in data: "yes", "no", or the exception the test raises.
Contains(data, key) ==
    CASE data.t = "dict" -> IF key \in DOMAIN data.v THEN "yes" ELSE "no"
      [] data.t = "list" -> IF \E i \in 1..Len(data.v) : data.v[i] = PyStr(key)
                            THEN "yes" ELSE "no"
      [] OTHER -> "TypeError"
\* data[key] for a text key: "" when it has a value, or the exception.
SubscriptError(data, key) ==
    IF data.t # "dict" THEN "TypeError"
    ELSE IF key \notin DOMAIN data.v THEN "KeyError"
    ELSE ""

The(p, e) == [pc |-> p, raised |-> e]
\* get_dataset from the answer of the download session to the file
\* request: where it goes and what it raises.
SessionOutcome(resp, json_error) ==
    IF resp.kind = "raise" THEN The("returned", "")
    ELSE IF raise_for_status(resp) THEN The("returned", "")
    ELSE IF resp.data = NotJson
         THEN IF json_error = "RequestException" THEN The("returned", "")
              ELSE The("raised", json_error)
    ELSE IF Contains(resp.data, ERROR) = "TypeError" THEN The("raised", "TypeError")
    ELSE IF Contains(resp.data, ERROR) = "yes"
         THEN IF SubscriptError(resp.data, ERROR) # ""
              THEN The("raised", SubscriptError(resp.data, ERROR))
              ELSE The("returned", "")
    ELSE IF SubscriptError(resp.data, DOWNLOAD_URL) # ""
         THEN The("raised", SubscriptError(resp.data, DOWNLOAD_URL))
    ELSE IF SubscriptError(resp.data, FILENAME) # ""
         THEN The("raised", SubscriptError(resp.data, FILENAME))
    ELSE The("file", "")

\* r.json() gave a value.
JsonOf(resp) ==
    resp.kind = "response" /\ ~raise_for_status(resp) /\ resp.data # NotJson

ClientInit ==
    /\ CrawlIdle
    /\ DecodeIdle
    /\ AcceptIdle
    /\ dc_pc = "new"
    /\ api_key \in ApiKeys
    /\ MDC_API_KEY \in EnvKeys
    /\ self_api_key = None
    /\ response_data = None
    /\ dc_requests = <<>>
    /\ dc_return = None
    /\ dc_raised = ""

\* DataCollective(api_key): the constructor.
DataCollective ==
    /\ dc_pc = "new"
    /\ self_api_key' = PyOr(api_key, MDC_API_KEY)
    /\ IF ~Truthy(self_api_key')
       THEN dc_pc' = "raised" /\ dc_raised' = "ValueError"
       ELSE dc_pc' = "ready" /\ UNCHANGED dc_raised
    /\ UNCHANGED <<api_key, MDC_API_KEY, response_data, dc_requests, dc_return,
                   crawling, decoding, accepting>>

\* get_dataset up to the request of the file: the download directory is
\* ensured, the download session is requested and its answer is read.
GetDatasetSession(writable, resp, json_error) ==
    /\ dc_pc = "ready"
    /\ IF ~writable
       THEN /\ dc_pc' = "raised"
            /\ dc_raised' = "PermissionError"
            /\ UNCHANGED <<dc_requests, response_data>>
       ELSE /\ dc_requests' = Append(dc_requests, Call("post_session", self_api_key))
            /\ response_data' = IF JsonOf(resp) THEN resp.data ELSE response_data
            /\ dc_pc' = SessionOutcome(resp, json_error).pc
            /\ dc_raised' = SessionOutcome(resp, json_error).raised
    /\ UNCHANGED <<api_key, MDC_API_KEY, self_api_key, dc_return,
                   crawling, decoding, accepting>>

\* What the content-length header of the file answer holds, and how the
\* writing of the file ends.
ContentLengths == {"absent", "digits", "other"}
Writes == {"written", "OSError"}
FileResponses == {Response(c, <<>>, <<>>) : c \in {200} \cup ErrorStatuses} \cup {Raised}

\* get_dataset from the request of the file to its return.
GetDatasetFile(resp, content_length, write) ==
    /\ dc_pc = "file"
    /\ dc_requests' = Append(dc_requests, Call("get_file", response_data.v[DOWNLOAD_URL]))
    /\ IF resp.kind = "raise" \/ raise_for_status(resp)
       THEN dc_pc' = "returned" /\ UNCHANGED <<dc_return, dc_raised>>
       ELSE IF content_length = "other"
       THEN dc_pc' = "raised" /\ dc_raised' = "ValueError" /\ UNCHANGED dc_return
       ELSE IF write # "written"
       THEN dc_pc' = "raised" /\ dc_raised' = write /\ UNCHANGED dc_return
       ELSE /\ dc_pc' = "returned"
            /\ dc_return' = PyStr(PathJoin(DOWNLOAD_PATH, response_data.v[FILENAME].v))
            /\ UNCHANGED dc_raised
    /\ UNCHANGED <<api_key, MDC_API_KEY, self_api_key, response_data,
                   crawling, decoding, accepting>>

ClientNext ==
    \/ DataCollective
    \/ \E writable \in BOOLEAN, resp \in SessionResponses, json_error \in JsonErrors :
           GetDatasetSession(writable, resp, json_error)
    \/ \E resp \in FileResponses, content_length \in ContentLengths, write \in Writes :
           GetDatasetFile(resp, content_length, write)

ClientSpec == ClientInit /\ [][ClientNext]_vars

(* ------------------------------------------------------------------ *)
(* accept_terms of accept.py                                           *)
(* ------------------------------------------------------------------ *)
\* Largest number of chunk scripts of a dataset page, and of streamed
\* chunks of a page that is read for hasAgreed.
MaxScripts == 2
MaxChunks == 2

\* Action ids (40 to 64 hex digits in the source), here one hex digit.
ActionIds == {<<"a">>, <<"b">>}
HexOrder == <<"0", "1", "2", "3", "4", "5", "6", "7", "8", "9",
              "a", "b", "c", "d", "e", "f">>
HexRank(digits) == CHOOSE i \in 1..Len(HexOrder) : HexOrder[i] = digits[1]
\* sorted(set(...)) of action ids.
RECURSIVE Sorted(_)
Sorted(S) ==
    IF S = {} THEN <<>>
    ELSE LET least == CHOOSE x \in S : \A y \in S : HexRank(x) <= HexRank(y)
         IN <<least>> \o Sorted(S \ {least})

\* The dataset page as accept_terms reads it: the GET raised, or the page
\* came with or without a terms block holding an id, with a number of
\* chunk scripts and a set of action ids in its own text.
TERMS == PyStr(<<"t">>)
PageLoads ==
    {[kind |-> "raise", terms |-> None, scripts |-> 0, found |-> {}]}
      \cup {[kind |-> "response", terms |-> t, scripts |-> n, found |-> S] :
               t \in {None, TERMS}, n \in 0..MaxScripts, S \in SUBSET ActionIds}
\* The answer to the GET of a chunk script: it raised, it is no 200
\* javascript answer, or it is javascript whose lines with action, next or
\* server hold these ids in order.
ScriptAnswers ==
    {[kind |-> "raise", found |-> <<>>], [kind |-> "other", found |-> <<>>]}
      \cup {[kind |-> "javascript", found |-> q] : q \in SeqsUpTo(ActionIds, 2)}

\* discover_action_ids_for_dataset, from the answers to its GETs.
discover_action_ids_for_dataset(answers) ==
    OrderedUnique(
        Concat([i \in 1..Len(answers) |->
                   IF answers[i].kind = "javascript" THEN answers[i].found
                   ELSE <<>>]),
        <<>>)

\* A page read for hasAgreed: whether TERMS_BLOCK_RE matches its text and
\* whether that text holds "hasAgreed":true, and the same for each of its
\* streamed chunks once unescaped.
Blocks == [block : BOOLEAN, flag : BOOLEAN]
VerifyPages ==
    {[kind |-> "raise", block |-> FALSE, flag |-> FALSE, chunks |-> <<>>]}
      \cup {[kind |-> "response", block |-> b.block, flag |-> b.flag, chunks |-> c] :
               b \in Blocks, c \in SeqsUpTo(Blocks, MaxChunks)}
parse_has_agreed_from_html(html) ==
    IF html.block THEN html.flag
    ELSE IF \E i \in 1..Len(html.chunks) : html.chunks[i].block
    THEN html.chunks[CHOOSE i \in 1..Len(html.chunks) :
                        /\ html.chunks[i].block
                        /\ \A j \in 1..(i - 1) : ~html.chunks[j].block].flag
    ELSE FALSE

\* The answer to an action POST.
X_COMPONENT == "text/x-component"
ContentTypes == {X_COMPONENT, "text/html"}
ActionAnswers ==
    {[kind |-> "raise", status_code |-> 0, ctype |-> ""]}
      \cup {[kind |-> "response", status_code |-> c, ctype |-> ct] :
               c \in {200} \cup ErrorStatuses, ct \in ContentTypes}
\* The answer to the POST to the download endpoint: it raised, a 200 with
\* a JSON body, a 200 whose body is no JSON, or another status.
DownloadAnswers == {"raise", "json", "not json", "status"}

\* A request of accept_terms, with the candidate it was made for and what
\* came back.
Sent(name, aid, status_code, info) ==
    [call |-> name, aid |-> aid, status_code |-> status_code, info |-> info]
AcceptedBy(post) ==
    post.kind = "response" /\ post.status_code = 200 /\ post.ctype = X_COMPONENT

\* The page fetched again after an accepted POST reports hasAgreed true.
Agreed(post, verify) ==
    /\ AcceptedBy(post)
    /\ verify.kind = "response"
    /\ parse_has_agreed_from_html(verify)
\* No page was fetched.
NoPage == [kind |-> "none", block |-> FALSE, flag |-> FALSE, chunks |-> <<>>]

AcceptInit ==
    /\ CrawlIdle
    /\ DecodeIdle
    /\ ClientIdle
    /\ at_pc = "start"
    /\ terms_id = None
    /\ action_ids = <<>>
    /\ aid_idx = 0
    /\ last_status = <<>>
    /\ at_requests = <<>>
    /\ at_raised = ""

\* accept_terms up to its loop: the dataset page is loaded, the terms id
\* and the candidate action ids are found.
LoadPage(loaded, answers) ==
    /\ at_pc = "start"
    /\ Len(answers) = loaded.scripts
    /\ LET discovered == discover_action_ids_for_dataset(answers)
           candidates == IF discovered # <<>> THEN discovered
                         ELSE Sorted(loaded.found)
           gets == [i \in 1..Len(answers) |-> Sent("get_script", <<>>, 0, answers[i].kind)]
       IN IF loaded.kind = "raise"
          THEN /\ at_requests' = <<Sent("get_page", <<>>, 0, "raise")>>
               /\ at_pc' = "raised" /\ at_raised' = "RequestException"
               /\ UNCHANGED <<terms_id, action_ids>>
          ELSE IF ~Truthy(loaded.terms)
          THEN /\ at_requests' = <<Sent("get_page", <<>>, 0, "response")>>
               /\ at_pc' = "raised" /\ at_raised' = "RuntimeError"
               /\ UNCHANGED <<terms_id, action_ids>>
          ELSE /\ at_requests' = <<Sent("get_page", <<>>, 0, "response")>> \o gets
               /\ terms_id' = loaded.terms
               /\ action_ids' = candidates
               /\ IF candidates = <<>>
                  THEN at_pc' = "raised" /\ at_raised' = "RuntimeError"
                  ELSE at_pc' = "try" /\ UNCHANGED at_raised
    /\ UNCHANGED <<aid_idx, last_status, crawling, decoding, client>>

\* One turn of the loop over the candidates: the action POST, the page
\* fetched again, the POST to the download endpoint, and the end of the
\* loop.
TryAction(post, verify, dv) ==
    /\ at_pc = "try"
    /\ LET aid == action_ids[aid_idx + 1]
           accepted == AcceptedBy(post)
           agreed == Agreed(post, verify)
           excepted == \/ post.kind = "raise"
                       \/ accepted /\ verify.kind = "raise"
                       \/ agreed /\ dv \in {"raise", "not json"}
           returns == agreed /\ dv \in {"json", "status"}
       IN /\ at_requests' =
                at_requests
                  \o <<Sent("post_action", aid, post.status_code,
                            IF post.kind = "raise" THEN "raise" ELSE post.ctype)>>
                  \o (IF accepted
                      THEN <<Sent("get_verify", aid, 0,
                                  IF verify.kind = "raise" THEN "raise"
                                  ELSE IF agreed THEN "agreed" ELSE "not agreed")>>
                      ELSE <<>>)
                  \o (IF agreed THEN <<Sent("post_download", aid, 0, dv)>> ELSE <<>>)
          /\ aid_idx' = aid_idx + 1
          /\ last_status' = IF excepted THEN <<aid, 0, "exception">>
                            ELSE <<aid, post.status_code, post.ctype>>
          /\ IF returns
             THEN at_pc' = "returned" /\ UNCHANGED at_raised
             ELSE IF aid_idx + 1 = Len(action_ids)
             THEN at_pc' = "raised" /\ at_raised' = "RuntimeError"
             ELSE UNCHANGED <<at_pc, at_raised>>
    /\ UNCHANGED <<terms_id, action_ids, crawling, decoding, client>>

AcceptNext ==
    \/ at_pc = "start"
       /\ \E loaded \in PageLoads :
              \E answers \in [1..loaded.scripts -> ScriptAnswers] :
                  LoadPage(loaded, answers)
    \/ at_pc = "try"
       /\ \E post \in ActionAnswers :
              \E verify \in IF AcceptedBy(post) THEN VerifyPages ELSE {NoPage} :
                  \E dv \in IF Agreed(post, verify) THEN DownloadAnswers ELSE {"none"} :
                      TryAction(post, verify, dv)

AcceptSpec == AcceptInit /\ [][AcceptNext]_vars

(* ------------------------------------------------------------------ *)
(* Reading the state                                                   *)
(* ------------------------------------------------------------------ *)
\* main returned, or an exception left it.
Stopped == pc \in {"done", "failed"}
\* The loop is over and all_rows went (or is about to go) to write_csv.
Completed == pc = "write" \/ csv.called
\* The exceptions of a request: the transport raised, or raise_for_status.
TransportErrors == {"RequestException", "HTTPError"}

IsRequest(e) == e.call # "sleep"
IsLoadMore(e) == e.call = "post_load_more"
IsInitial(e) == e.call = "post_initial"
Requests == SelectSeq(log, IsRequest)
LoadMores == SelectSeq(log, IsLoadMore)
Initials == SelectSeq(log, IsInitial)
LastRequest == Last(Requests)

\* The page a response to a list POST decodes to ([] for an error status).
PageOf(resp) ==
    IF resp.kind = "response" /\ resp.status_code < 400 /\ resp.text \in PageBodies
    THEN DecodedPage[resp.text] ELSE <<>>
\* The page has a last record that has an identifier.
HasLastId(p) == p # <<>> /\ Subscript(Last(p)).ok
LastId(p) == Subscript(Last(p)).val

\* The latest request was a load-more whose page is not empty and ends with
\* the cursor that was sent.
StallObserved ==
    /\ Requests # <<>>
    /\ IsLoadMore(LastRequest)
    /\ HasLastId(PageOf(r))
    /\ PyEq(LastId(PageOf(r)), LastRequest.arg)

(* ------------------------------------------------------------------ *)
(* Claims                                                              *)
(* ------------------------------------------------------------------ *)

\* C1: whatever the endpoint answers, the crawl eventually stops (main
\* returns or fails); it never keeps fetching forever.  Refuted under
\* LiveSpec by an endpoint whose pages end with a, b, a, b, ...
C1_CrawlStops == <>Stopped

\* C2: when a request fails fatally after at least one record has been
\* accumulated, the accumulated records are still handed to write_csv.
C2_PartialResultsWritten ==
    (pc = "failed" /\ error \in TransportErrors /\ all_rows # <<>>)
        => (csv.called /\ csv.rows = all_rows)

\* C3: after a load-more page that is not empty and whose last identifier
\* equals the cursor sent, no further request is issued and the crawl
\* completes as it does normally: all_rows goes to write_csv, and no
\* exception of the crawl itself is raised.
C3_StallGuard ==
    StallObserved =>
        /\ Completed
        /\ pc \in {"write", "done", "failed"}
        /\ pc = "failed" => error = "AttributeError"
C3_Witness == StallObserved /\ pc = "done" /\ Len(all_rows) >= 2

\* The cursors the load-more requests sent, in order.
CursorsSent == [k \in 1..Len(LoadMores) |-> LoadMores[k].arg]
\* Every cursor computed differs from every cursor used before it: the
\* cursors sent are pairwise different, the last page did not repeat the
\* cursor it was asked with, and the final cursor is none of the earlier ones.
CursorsStrictlyAdvance ==
    /\ \A i, j \in 1..Len(CursorsSent) :
           i # j => ~PyEq(CursorsSent[i], CursorsSent[j])
    /\ ~StallObserved
    /\ \A i \in 1..(Len(CursorsSent) - 1) : ~PyEq(last_id, CursorsSent[i])
\* No two records of the sequence have the same identifier.
NoRepeatedId(records) ==
    \A i, j \in 1..Len(records) :
        (i < j /\ Subscript(records[i]).ok /\ Subscript(records[j]).ok)
            => ~PyEq(Subscript(records[i]).val, Subscript(records[j]).val)

\* C4: in a crawl whose cursors strictly advance, the record sequence main
\* produces contains no identifier more than once.
C4_NoRepeatedIdentifier ==
    (Completed /\ CursorsStrictlyAdvance) => NoRepeatedId(all_rows)

\* The number N of pages of the catalog the crawl went through: the first
\* page (initial POST or seeds) and one per load-more that was accumulated.
PagesCrawled == IF all_rows = <<>> THEN 0 ELSE page - 1
\* The requests that returned a page or ended the crawl: the initial POST
\* that returned the first page and the load-more POSTs.
PageFetches == Len(LoadMores) + (IF init_rows # <<>> THEN 1 ELSE 0)

\* C5 as claimed: for a catalog of N pages the crawl completes after at most
\* N+1 requests, counting every request main issues.
C5_AtMostNPlusOneRequests ==
    Completed => Len(Requests) <= PagesCrawled + 1

\* C5 as amended: for a catalog of N pages the crawl completes after at most
\* N+1 page fetches (the initial POST that returned the first page and the
\* load-more POSTs); counting every request, after at most N+2 on the primary
\* path and N+3 plus one per seed on the fallback path.
C5_RequestBound ==
    Completed =>
        /\ PageFetches <= PagesCrawled + 1
        /\ Len(Requests) <= IF init_rows # <<>> THEN PagesCrawled + 2
                            ELSE PagesCrawled + 3 + Len(ids)
C5_Witness ==
    /\ pc = "done"
    /\ PagesCrawled = 2
    /\ Len(Initials) = 2
    /\ Len(Requests) = PagesCrawled + 2

\* The three ways the crawl may complete.
EndedByEmptyPage ==
    /\ Requests # <<>> /\ IsLoadMore(LastRequest)
    /\ PageOf(r) = <<>>
EndedByNoSeeds ==
    /\ init_rows = <<>> /\ ids = <<>> /\ LoadMores = <<>>

\* C6: the crawl completes only after an empty subsequent page, after a page
\* whose last identifier equals the cursor sent, or with an empty seed list;
\* a non-empty page that ends with a new identifier never ends the crawl.
C6_OnlyThreeWaysToComplete ==
    Completed => (EndedByEmptyPage \/ StallObserved \/ EndedByNoSeeds)

\* This step received the response to a list POST, and it decodes to a
\* non-empty page whose last record has an identifier.
PageReceived ==
    /\ pc \in {"initial", "more"}
    /\ log' # log
    /\ HasLastId(PageOf(r'))
\* This step received a load-more page that ends with the cursor sent.
StalledPageReceived ==
    /\ pc = "more"
    /\ PageReceived
    /\ PyEq(LastId(PageOf(r')), last_id)
\* The step appended the page and moved the cursor to its last identifier.
PageAccumulated ==
    /\ all_rows' = all_rows \o PageOf(r')
    /\ last_id' = LastId(PageOf(r'))

C8_CursorIsLastRecordId ==
    /\ pc = "more" =>
           /\ all_rows # <<>>
           /\ Subscript(Last(all_rows)).ok
           /\ PyEq(Subscript(Last(all_rows)).val, last_id)
    /\ pc \in {"initial", "html", "detail"} => last_id = None

\* What a response to an initial POST yields: its page, nothing for an
\* error status.
Yield(resp) == PageOf(resp)
\* The two call shapes in order: the cursor-omitted one, then the
\* empty-cursor one.
BothShapes == <<Call("post_initial", None), Call("post_initial", PyStr(<<>>))>>
\* This step is the one that enters the fallback branch.
EntersFallback == pc # "html" /\ pc' = "html"
\* This step ends the initial attempt with zero records: the response to the
\* second call shape arrives and yields nothing, as the first did.
InitialAttemptYieldsNothing ==
    /\ pc = "initial" /\ log' # log
    /\ log = <<BothShapes[1]>>
    /\ Yield(r) = <<>>
    /\ r'.kind = "response" /\ Yield(r') = <<>>
\* A request of the fallback branch (markup or detail GET) is in the log.
IsFallbackRequest(e) == e.call \in {"get_html", "get_detail"}
InFallback ==
    pc \in {"html", "detail"} \/ SelectSeq(log, IsFallbackRequest) # <<>>

\* C9: the fallback branch is entered if and only if the initial attempt
\* yielded zero records; the initial attempt sends the cursor-omitted shape
\* first and the empty-cursor shape second, the second only when the first
\* yielded nothing; the fallback is never entered after a primary record was
\* accumulated or after a load-more request.
C9_FallbackOnlyOnEmptyFirstPage ==
    /\ [][EntersFallback <=> InitialAttemptYieldsNothing]_vars
    /\ [][(pc = "initial" /\ log' # log) =>
              /\ Len(Initials) < 2
              /\ Initials' = SubSeq(BothShapes, 1, Len(Initials) + 1)
              /\ (Len(Initials) = 1 => (r.kind = "response" /\ Yield(r) = <<>>))]_vars
    /\ [](pc = "html" => (all_rows = <<>> /\ log = BothShapes))
    /\ [](InFallback => (init_rows = <<>> /\ SubSeq(log, 1, 2) = BothShapes))
C9_Witness ==
    /\ pc = "detail"
    /\ log = BothShapes \o <<Call("get_html", None)>>
    /\ ids # <<>>

\* The detail GET of ds_id came back with the object of a record: no error
\* status, and the decode returned an object that is not empty.
DetailFound(resp, ds_id) ==
    /\ resp.kind = "response"
    /\ resp.status_code < 400
    /\ resp.text \in DetailBodies(ds_id)
    /\ Truthy(DecodedDetail[ds_id][resp.text])
\* rec is the record that holds the identifier and nothing else.
OnlyId(rec, ds_id) ==
    /\ rec.t = "dict"
    /\ DOMAIN rec.v = {ID}
    /\ rec.v[ID] = PyStr(ds_id)
\* This step handled the seed ids[ds_idx + 1].
SeedHandled == pc = "detail" /\ log' # log

\* C10 as claimed: on the fallback path every seed contributes exactly one
\* record, in seed order, whatever the outcome of its detail fetch (error
\* status, decode miss, or a fetch that raises): once the seeds are handled
\* all_rows holds one record per seed, and the record of a seed whose detail
\* fetch failed or found nothing is the minimal record.
C10_EverySeedContributes ==
    /\ [](pc # "detail" => Len(all_rows) >= Len(ids))
    /\ [][(SeedHandled /\ ~DetailFound(r', ids[ds_idx + 1])) =>
              /\ Len(all_rows') = Len(all_rows) + 1
              /\ OnlyId(Last(all_rows'), ids[ds_idx + 1])]_vars

\* C10 as amended: every seed whose detail fetch returns contributes exactly
\* one record, in seed order: the decoded object, or the minimal record when
\* the fetch returned an error status or the decode found nothing; a detail
\* fetch that raises ends the crawl and contributes no record.
C10_SeedRecords ==
    /\ [][(SeedHandled /\ r'.kind = "response") =>
              /\ Len(all_rows) = ds_idx
              /\ ds_idx' = ds_idx + 1
              /\ Len(all_rows') = ds_idx'
              /\ SubSeq(all_rows', 1, ds_idx) = all_rows
              /\ IF DetailFound(r', ids[ds_idx + 1])
                 THEN Last(all_rows') = DecodedDetail[ids[ds_idx + 1]][r'.text]
                 ELSE OnlyId(Last(all_rows'), ids[ds_idx + 1])]_vars
    /\ [][(SeedHandled /\ r'.kind = "raise") =>
              (pc' = "failed" /\ all_rows' = all_rows /\ ds_idx' = ds_idx)]_vars
    /\ []((pc = "more" /\ ids # <<>> /\ LoadMores = <<>>) =>
              (ds_idx = Len(ids) /\ Len(all_rows) = Len(ids)))
C10_Witness ==
    /\ pc = "more"
    /\ LoadMores = <<>>
    /\ Len(ids) = 2
    /\ Len(all_rows) = 2
    /\ OnlyId(all_rows[1], ids[1])
    /\ DetailFound(r, ids[2])
    /\ all_rows[2] = DecodedDetail[ids[2]][r.text]

\* The response is a transport failure: the request raised, or it came
\* back with an error status.
TransportFailure(resp) == resp.kind = "raise" \/ resp.status_code >= 400
\* This step issued a request and got resp' back.
Fetched == log' # log
\* Nothing is fetched once an exception has left main.
NothingAfterFailure == pc = "failed" => log' = log

\* C11 as claimed: a transport failure on any fetch of the crawl, an error
\* status included, ends the crawl: main fails in that step and no later
\* fetch is issued.
C11_TransportFailureTerminal ==
    /\ [][(Fetched /\ TransportFailure(r')) => pc' = "failed"]_vars
    /\ [][NothingAfterFailure]_vars

\* C11 as amended: a fetch that raises, and an error status on a load-more
\* POST or on the markup GET, ends the crawl with no later fetch and no
\* retry; an error status on an initial POST counts as an empty first page
\* (the next call shape or the fallback follows) and an error status on a
\* detail GET as a missing detail (the minimal record is appended and the
\* crawl goes on).
C11_RaisingFetchTerminal ==
    /\ [][(Fetched /\ r'.kind = "raise") =>
              (pc' = "failed" /\ error' = "RequestException"
                  /\ all_rows' = all_rows)]_vars
    /\ [][(Fetched /\ pc \in {"more", "html"} /\ TransportFailure(r')) =>
              (pc' = "failed" /\ error' \in TransportErrors)]_vars
    /\ [][(Fetched /\ pc = "initial" /\ r'.kind = "response"
              /\ r'.status_code >= 400) =>
              (all_rows' = all_rows
                  /\ IF payload < Payloads
                     THEN pc' = "initial" /\ payload' = payload + 1
                     ELSE pc' = "html")]_vars
    /\ [][(Fetched /\ pc = "detail" /\ r'.kind = "response"
              /\ r'.status_code >= 400) =>
              (pc' # "failed"
                  /\ all_rows' = Append(all_rows, MinimalRecord(ids[ds_idx + 1])))]_vars
    /\ [][NothingAfterFailure]_vars
C11_Witness ==
    /\ pc = "failed"
    /\ error = "HTTPError"
    /\ LoadMores # <<>>
    /\ all_rows # <<>>
    /\ r.status_code = 500
\* href is a link /datasets/<id> with this id.
LinksTo(href, id) ==
    /\ id # <<>>
    /\ \A k \in 1..Len(id) : id[k] \in IdChars
    /\ href = DatasetsPath \o id
\* The position of the first link of the document to id (0 when none).
FirstLink(links, id) ==
    IF \E k \in 1..Len(links) : LinksTo(links[k], id)
    THEN CHOOSE k \in 1..Len(links) :
             /\ LinksTo(links[k], id)
             /\ \A j \in 1..(k - 1) : ~LinksTo(links[j], id)
    ELSE 0
\* The identifiers the links of the document point to.
LinkedIds(links) ==
    {SubSeq(links[k], Len(DatasetsPath) + 1, Len(links[k])) :
        k \in {j \in 1..Len(links) :
                  LinksTo(links[j], SubSeq(links[j], Len(DatasetsPath) + 1,
                                           Len(links[j])))}}
\* seeds are the identifiers linked in the document, in order of first
\* appearance, none repeated, cut to PAGE_LIMIT entries.
SeedsOf(links, seeds) ==
    /\ Len(seeds) = Min(PAGE_LIMIT, Cardinality(LinkedIds(links)))
    /\ \A k \in 1..Len(seeds) : seeds[k] \in LinkedIds(links)
    /\ \A i, j \in 1..Len(seeds) :
           i < j => FirstLink(links, seeds[i]) < FirstLink(links, seeds[j])
    /\ \A id \in LinkedIds(links) :
           (\E k \in 1..Len(seeds) : seeds[k] = id)
               \/ \A k \in 1..Len(seeds) :
                      FirstLink(links, seeds[k]) < FirstLink(links, id)
\* The seeds of the detail GETs issued so far, in order.
IsDetail(e) == e.call = "get_detail"
DetailsFetched ==
    [k \in 1..Len(SelectSeq(log, IsDetail)) |-> SelectSeq(log, IsDetail)[k].arg.v]

\* C12: for every markup document get_initial_ids_from_html returns the
\* identifiers of the links /datasets/<id> in order of first appearance, none
\* repeated, at most PAGE_LIMIT of them, and the empty list when there are
\* none; main then attempts one detail fetch per seed, in seed order: the
\* detail GETs issued are the seeds handled so far, and all the seeds once
\* the fallback loop is over.
C12_SeedsAndDetailFetches ==
    /\ [][(pc = "html" /\ Fetched /\ r'.kind = "response"
              /\ r'.status_code < 400) => SeedsOf(r'.links, ids')]_vars
    /\ [][(pc = "html" /\ ids' = <<>>) => pc' # "detail"]_vars
    /\ []((pc = "detail" \/ ids # <<>>) =>
              /\ Len(DetailsFetched) <= Len(ids)
              /\ DetailsFetched = SubSeq(ids, 1, Len(DetailsFetched))
              /\ Len(DetailsFetched) \in
                     {ds_idx, IF pc = "failed" THEN ds_idx + 1 ELSE ds_idx})
    /\ []((ids # <<>> /\ pc \in {"more", "write", "done"}) =>
              DetailsFetched = ids)
C12_Witness ==
    /\ pc = "detail"
    /\ r.links = RepeatingMarkup
    /\ ids = <<<<"a">>, <<"b">>>>
C12_DetailWitness ==
    /\ pc = "more"
    /\ ids = <<<<"a">>, <<"b">>>>
    /\ DetailsFetched = ids
    /\ Len(SelectSeq(log, IsFallbackRequest)) = 3
C12_TruncationWitness ==
    /\ pc = "detail"
    /\ Len(r.links) > PAGE_LIMIT
    /\ Len(ids) = PAGE_LIMIT
\* A page fetch (initial or load-more POST) or a detail fetch.
IsPageOrDetailFetch(e) == e.call \in {"post_initial", "post_load_more", "get_detail"}
\* The events k and k + 1 of the log are two fetches with no delay between.
BackToBack(k) == IsPageOrDetailFetch(log[k]) /\ IsPageOrDetailFetch(log[k + 1])

\* C22: no two page or detail fetches of a crawl (the two initial call
\* shapes included) are issued one directly after the other: a delay event
\* lies between any two successive fetches.
C22_DelayBetweenFetches ==
    \A k \in 1..(Len(log) - 1) : ~BackToBack(k)

\* What the code does: every load-more POST and every detail GET directly
\* follows a delay.
C22_LoopFetchesDelayed ==
    \A k \in 1..Len(log) :
        log[k].call \in {"post_load_more", "get_detail"} =>
            k > 1 /\ log[k - 1] = Sleep

\* C23 (the crawl's half): a crawl configured without its server-action
\* identifier issues no request at all and stops at startup.
C23_MissingIdentifierIsFatal ==
    NEXT_ACTION = "" => /\ Requests = <<>>
                        /\ pc \in {"initial", "failed"}

\* A step is a load-more fetch that returned a page, and that page is empty
\* or stalled: its last identifier equals the cursor that was sent.
EndingFetch ==
    /\ pc = "more" /\ log' # log
    /\ pc' # "failed"
    /\ \/ rows' = <<>>
       \/ PyEq(next_last', last_id)

\* C25: a load-more fetch whose page is empty or stalled appends none of its
\* records and ends the loop, and what is then written is the sequence held
\* before that fetch.
C25_EndingFetchAppendsNothing ==
    [][/\ EndingFetch => /\ all_rows' = all_rows
                         /\ pc' = "write"
       /\ (pc = "write" /\ csv'.called) => csv'.rows = all_rows]_vars
\* A stalled page that holds records has ended a crawl that had accumulated
\* records, and they were written.
C25_Witness ==
    /\ pc = "done"
    /\ Last(log).call = "post_load_more"
    /\ rows # <<>>
    /\ PyEq(next_last, last_id)
    /\ all_rows # <<>>
    /\ csv.rows = all_rows

\* A step is a list POST (initial or load-more) that ended the crawl with
\* an exception.
PageFetchAborts ==
    /\ pc \in {"initial", "more"} /\ log' # log
    /\ pc' = "failed"

\* C26: a list POST ends the crawl with an exception only when the request
\* raised or answered an error status; whatever array the page decodes to,
\* the crawl goes on or completes.
C26_OnlyTransportFailuresAbort ==
    [][PageFetchAborts => /\ error' \in TransportErrors
                          /\ TransportFailure(r')]_vars
\* What the code does: a page that was received ends the crawl with the
\* exception of the subscript on its last element, KeyError when that
\* element is an object without id and TypeError when it is no object.
C26_LastElementAborts ==
    [][(PageFetchAborts /\ ~TransportFailure(r')) =>
          /\ error' \in {"KeyError", "TypeError"}
          /\ ~Subscript(Last(DecodedPage[r'.text])).ok]_vars

\* The client's half of C23: a client constructed without a credential
\* raises ValueError and has issued no request.
C23_MissingCredentialIsFatal ==
    (dc_pc \notin {"idle", "new"} /\ ~Truthy(api_key) /\ ~Truthy(MDC_API_KEY))
        => /\ dc_pc = "raised"
           /\ dc_raised = "ValueError"
           /\ dc_requests = <<>>

(* ------------------------------------------------------------------ *)
(* Claims on the DataCollective client                                 *)
(* ------------------------------------------------------------------ *)
\* get_dataset has ended on the answer of the download session.
EndedOnSession ==
    /\ dc_pc \in {"returned", "raised"}
    /\ Len(dc_requests) = 1

\* C24: whatever the download-session request gives, get_dataset returns
\* None and raises nothing when it ends on it.
C24_NoneOnSessionFailure ==
    EndedOnSession => /\ dc_pc = "returned"
                      /\ dc_return = None
                      /\ dc_raised = ""

\* The outcomes get_dataset handles: an answer carrying an error field
\* yields None.
C24_ErrorFieldYieldsNone ==
    (EndedOnSession /\ response_data.t = "dict" /\ ERROR \in DOMAIN response_data.v)
        => /\ dc_pc = "returned"
           /\ dc_return = None
\* An answer object without downloadUrl or filename (and without an error
\* field) ends get_dataset with KeyError.
C24_MissingFieldRaises ==
    (/\ EndedOnSession
     /\ response_data.t = "dict"
     /\ ERROR \notin DOMAIN response_data.v)
        => /\ dc_pc = "raised"
           /\ dc_raised = "KeyError"

(* ------------------------------------------------------------------ *)
(* Claims on accept_terms                                              *)
(* ------------------------------------------------------------------ *)
IsActionPost(e) == e.call = "post_action"
ActionPosts == SelectSeq(at_requests, IsActionPost)
\* The k-th request is an action POST answered 200 with text/x-component,
\* and the page fetched next reported hasAgreed true.
VerifiedAt(k) ==
    /\ k + 1 <= Len(at_requests)
    /\ at_requests[k].call = "post_action"
    /\ at_requests[k].status_code = 200
    /\ at_requests[k].info = X_COMPONENT
    /\ at_requests[k + 1].call = "get_verify"
    /\ at_requests[k + 1].aid = at_requests[k].aid
    /\ at_requests[k + 1].info = "agreed"
SomeVerified == \E k \in 1..Len(at_requests) : VerifiedAt(k)
AcceptEnded == at_pc \in {"returned", "raised"}

\* accept_terms returns only after a verified candidate, and the candidates
\* were posted in discovery order.
C28_ReturnsOnlyVerified ==
    /\ at_pc = "returned" => SomeVerified
    /\ at_pc # "idle" =>
          /\ Len(ActionPosts) = aid_idx
          /\ \A i \in 1..aid_idx : ActionPosts[i].aid = action_ids[i]
\* No action POST follows a verified candidate.
NoPostAfterVerified ==
    \A k \in 1..Len(at_requests) :
        VerifiedAt(k) =>
            \A j \in (k + 2)..Len(at_requests) : at_requests[j].call # "post_action"
\* With the dataset page loaded and no candidate verified, accept_terms
\* ends with RuntimeError.
C28_UnverifiedRaises ==
    (/\ AcceptEnded
     /\ at_requests[1].info = "response"
     /\ ~SomeVerified)
        => (at_pc = "raised" /\ at_raised = "RuntimeError")

\* C28: accept_terms returns only after a candidate, tried in discovery
\* order, was answered 200 with text/x-component and the page fetched again
\* reported hasAgreed true; no action POST follows the first verified
\* candidate; with no candidate verified it raises RuntimeError.
C28_VerifiedOrRuntimeError ==
    /\ C28_ReturnsOnlyVerified
    /\ NoPostAfterVerified
    /\ C28_UnverifiedRaises
\* What the code does: the loop goes on after a verified candidate exactly
\* when the POST to the download endpoint raised or its 200 answer was no
\* JSON, and then a later candidate must verify, or RuntimeError is raised
\* although the terms are accepted.
C28_PostAfterVerifiedOnlyOnDownloadFailure ==
    \A k \in 1..Len(at_requests) :
        (VerifiedAt(k) /\ \E j \in (k + 2)..Len(at_requests) :
                              at_requests[j].call = "post_action")
            => /\ at_requests[k + 2].call = "post_download"
               /\ at_requests[k + 2].info \in {"raise", "not json"}
C28_VerifiedYetRuntimeError ==
    /\ at_pc = "raised"
    /\ at_raised = "RuntimeError"
    /\ SomeVerified

(* ------------------------------------------------------------------ *)
(* Claims on the two extractors                                        *)
(* ------------------------------------------------------------------ *)
ByKey == returned /\ fn = "extract_json_array_from_rsc"
ByValue == returned /\ fn = "extract_first_object_with_id"
Balanced == span.end # 0
\* The span of the state, normalized and handed to the JSON parser.
SpanDocument ==
    json_loads(normalize_rsc_tokens(SubSeq(joined_text, span.start, span.end)))

\* "key" <white space> : <white space> <bracket>, from i to the bracket at j.
KeyFollowedBy(s, key, i, j, bracket) ==
    /\ StartsAt(s, Str(key), i)
    /\ j \in (i + Len(key) + 3)..Len(s)
    /\ s[j] = bracket
    /\ \E c \in (i + Len(key) + 2)..(j - 1) :
          /\ s[c] = ":"
          /\ \A d \in ((i + Len(key) + 2)..(j - 1)) \ {c} : s[d] \in ReSpace
\* The anchor the extractor of the state looks for is in the text.
AnchorPresent ==
    IF fn = "extract_json_array_from_rsc"
    THEN \E i, j \in 1..Len(joined_text) : KeyFollowedBy(joined_text, anchor_arg, i, j, "[")
    ELSE \E i \in 1..Len(joined_text) : StartsAt(joined_text, Field(ID, Str(anchor_arg)), i)

\* C13: each extractor returns the value parsed from the normalized balanced
\* span, or its empty result ([] by key, None by value); it returns the
\* empty result whenever the anchor is missing, the span does not close, or
\* the normalized span is not valid JSON, and nothing in between.
C13_ParsedOrEmpty ==
    /\ ByKey =>
          out = IF AnchorPresent /\ Balanced /\ SpanDocument.ok
                THEN SpanDocument.val.v ELSE <<>>
    /\ ByValue =>
          out = IF AnchorPresent /\ Balanced /\ SpanDocument.ok
                THEN SpanDocument.val ELSE None
    /\ returned /\ fn # "normalize_rsc_tokens" /\ ~AnchorPresent => span = NoSpan
\* A closed span that is not valid JSON gives the empty result.
C13_Witness ==
    /\ ByValue /\ AnchorPresent /\ Balanced
    /\ ~SpanDocument.ok
    /\ out = None
\* A closed span that is valid JSON gives its value.
C13_ParsedWitness ==
    /\ ByKey /\ Balanced /\ SpanDocument.ok
    /\ out = <<PyList(<<>>)>>
\* A span the text leaves open gives the empty result.
C13_OpenWitness ==
    /\ ByKey /\ AnchorPresent /\ ~Balanced
    /\ raw_text = Str(KEY) \o <<":", "[", "[", "]">>
    /\ out = <<>>


\* Reading s one character at a time from i, at the given depth, inside a
\* string or not, after a backslash or not: the first position at which a
\* closing bracket outside every string brings the depth to zero, or 0.
RECURSIVE MatchingBracket(_, _, _, _, _, _, _)
MatchingBracket(s, i, depth, in_string, escaped, open, close) ==
    IF i > Len(s) THEN 0
    ELSE IF in_string /\ escaped
        THEN MatchingBracket(s, i + 1, depth, TRUE, FALSE, open, close)
    ELSE IF in_string
        THEN MatchingBracket(s, i + 1, depth, s[i] # Q, s[i] = BS, open, close)
    ELSE IF s[i] = Q
        THEN MatchingBracket(s, i + 1, depth, TRUE, FALSE, open, close)
    ELSE IF s[i] = open
        THEN MatchingBracket(s, i + 1, depth + 1, FALSE, FALSE, open, close)
    ELSE IF s[i] = close /\ depth = 1 THEN i
    ELSE IF s[i] = close
        THEN MatchingBracket(s, i + 1, depth - 1, FALSE, FALSE, open, close)
    ELSE MatchingBracket(s, i + 1, depth, FALSE, FALSE, open, close)

\* The character at k is content of a string literal (not a quote, not a
\* backslash, not the character a backslash escapes), reading from i.
RECURSIVE StringContent(_, _, _, _, _)
StringContent(s, i, k, in_string, escaped) ==
    IF i > Len(s) \/ i > k THEN FALSE
    ELSE IF i = k THEN in_string /\ ~escaped /\ s[k] \notin {Q, BS}
    ELSE IF in_string /\ escaped THEN StringContent(s, i + 1, k, TRUE, FALSE)
    ELSE IF in_string THEN StringContent(s, i + 1, k, s[i] # Q, s[i] = BS)
    ELSE StringContent(s, i + 1, k, s[i] = Q, FALSE)

\* s with the character at k replaced by c.
Replaced(s, k, c) == [s EXCEPT ![k] = c]
\* The span by key of the text s.
SpanByKey(s) == ArraySpan(s, anchor_arg, KeySearch(s, anchor_arg, 1))

\* C14: by key, the span ends at the bracket that matches the opening one
\* when brackets inside string literals are not counted and a quote after a
\* backslash does not end its string; and the span is the same when a
\* character of a string literal inside it is replaced by any bracket or brace.
C14_StringAware ==
    ByKey /\ AnchorPresent =>
        /\ span.end = MatchingBracket(joined_text, span.start, 0, FALSE, FALSE, "[", "]")
        /\ Balanced =>
              \A k \in (span.start + 1)..(span.end - 1) :
                  StringContent(joined_text, span.start, k, FALSE, FALSE) =>
                      \A c \in {"[", "]", "{", "}"} :
                          SpanByKey(Replaced(joined_text, k, c)) = span
\* A balanced array whose string holds an escaped quote and a bracket.
C14_Witness ==
    /\ ByKey
    /\ raw_text = Str(KEY) \o <<":", "[", Q, BS, Q, "]", Q, "]">>
    /\ span = [start |-> 5, end |-> 11]
    /\ out = <<PyStr(<<Q, "]">>)>>


\* The first position of "id":"<anchor>" in joined, or 0.
AnchorAt == Find(joined_text, Field(ID, Str(anchor_arg)), 1)
\* The '{' at i is open at pos: no '}' before pos closes it.
OpenAt(s, i, pos) ==
    /\ s[i] = "{"
    /\ MatchingBracket(s, i, 0, FALSE, FALSE, "{", "}") \notin 1..(pos - 1)
\* The '{' positions left of pos that are open at pos.
Enclosing(s, pos) == {i \in 1..(pos - 1) : OpenAt(s, i, pos)}
Greatest(S) == CHOOSE x \in S : \A y \in S : y <= x

\* C15: by value, the span starts at the nearest '{' left of the anchor that
\* is still open at the anchor, and a returned object holds the field
\* id = V; with no such '{' nothing is returned.
C15_InnermostEnclosingObject ==
    ByValue /\ AnchorPresent =>
        IF Enclosing(joined_text, AnchorAt) = {}
        THEN out = None
        ELSE /\ span.start = Greatest(Enclosing(joined_text, AnchorAt))
             /\ out # None =>
                   /\ out.t = "dict"
                   /\ ID \in DOMAIN out.v
                   /\ out.v[ID] = PyStr(anchor_arg)


Least(S) == CHOOSE x \in S : \A y \in S : x <= y
\* The positions at which "key": followed by '[' or '{' starts.
KeyAnchors(s, key) ==
    {i \in 1..Len(s) :
        \E j \in 1..Len(s), b \in {"[", "{"} : KeyFollowedBy(s, key, i, j, b)}
\* The bracket that follows "key": at i.
BracketAfter(s, key, i) ==
    CHOOSE j \in 1..Len(s) :
        \E b \in {"[", "{"} : KeyFollowedBy(s, key, i, j, b)
\* The opening bracket of the anchor of the state, or 0 without one: by key
\* the bracket after the first "key":, by value the nearest '{' left of the
\* first "id":"V" that is open there.
AnchorBracket ==
    IF fn = "extract_json_array_from_rsc"
    THEN IF KeyAnchors(joined_text, anchor_arg) = {} THEN 0
         ELSE BracketAfter(joined_text, anchor_arg, Least(KeyAnchors(joined_text, anchor_arg)))
    ELSE IF AnchorAt = 0 \/ Enclosing(joined_text, AnchorAt) = {} THEN 0
         ELSE Greatest(Enclosing(joined_text, AnchorAt))
\* Where the depth returns to zero after the bracket at start, or 0.
DepthZeroAfter(start) ==
    IF start = 0 THEN 0
    ELSE MatchingBracket(joined_text, start, 0, FALSE, FALSE,
                         joined_text[start], IF joined_text[start] = "[" THEN "]" ELSE "}")
NotFound == out = IF fn = "extract_json_array_from_rsc" THEN <<>> ELSE None

\* C16: with no anchor, or with a depth that never returns to zero after the
\* anchor's opening bracket, the result is "not found"; and a span that is
\* parsed starts at the anchor's opening bracket and ends at the first
\* position where the depth returns to zero.
C16_NoTruncatedSpan ==
    returned /\ fn # "normalize_rsc_tokens" =>
        /\ DepthZeroAfter(AnchorBracket) = 0 => NotFound
        /\ Balanced =>
              span = [start |-> AnchorBracket, end |-> DepthZeroAfter(AnchorBracket)]

\* By key, what the code does: a span that is parsed starts at the '[' after
\* the first "key": followed by '[' and ends where the depth returns to zero,
\* and without such a span the result is [].
C16_KeySpanIsWhole ==
    ByKey =>
        /\ Balanced =>
              /\ \E i \in 1..Len(joined_text) :
                    /\ KeyFollowedBy(joined_text, anchor_arg, i, span.start, "[")
                    /\ \A h \in 1..(i - 1), j \in 1..Len(joined_text) :
                          ~KeyFollowedBy(joined_text, anchor_arg, h, j, "[")
              /\ span.end = DepthZeroAfter(span.start)
        /\ ~Balanced => out = <<>>


\* The value of the span from the bracket at start to where its depth
\* returns to zero, normalized and parsed.
DocumentAt(start) ==
    json_loads(normalize_rsc_tokens(SubSeq(joined_text, start, DepthZeroAfter(start))))

ArrayAnchors(s, key) ==
    {i \in 1..Len(s) : \E j \in 1..Len(s) : KeyFollowedBy(s, key, i, j, "[")}
\* The '[' that follows "key": at i.
ArrayBracketAfter(s, key, i) ==
    CHOOSE j \in 1..Len(s) : KeyFollowedBy(s, key, i, j, "[")

C17_ObjectWitness ==
    /\ ByKey
    /\ raw_text = Str(KEY) \o <<":", "{", "}">>
    /\ span = NoSpan
    /\ out = <<>>


\* {"id": <number>}
NumberedRecord(digits) == PyDict(MapPut(EmptyMap, ID, PyNum(digits)))
\* 0:{"datasets":[{"id":"$n1"},{"id":"$n2"}]}
SpecChunk == Chunk(<<"0", ":">>, <<<<"1">>, <<"2">>>>)

\* C21: a chunk with a numeric prefix and a "datasets" array of objects with
\* quoted numeric id tokens decodes, by the key "datasets", to the records
\* with the numeric ids in the same order; the prefix is stripped first.
C21_EndToEnd ==
    \A p \in ChunkPrefixes, ns \in Texts(IdNumbers, MaxRecords) :
        ByKey /\ anchor_arg = DATASETS /\ raw_text = Chunk(p, ns) =>
            /\ joined_text = Chunk(<<>>, ns)
            /\ Balanced
            /\ out = [k \in 1..Len(ns) |-> NumberedRecord(ns[k])]
\* The chunk of the spec decodes to [{"id":1},{"id":2}].
C21_Witness ==
    /\ ByKey
    /\ raw_text = SpecChunk
    /\ out = <<NumberedRecord(<<"1">>), NumberedRecord(<<"2">>)>>

\* The string is a whole encoded token: $ and one or more reference
\* characters (a $n number and a $D date are of that form too).
WholeToken(b) ==
    /\ Len(b) >= 2
    /\ b[1] = "$"
    /\ \A i \in 2..Len(b) : b[i] \in RefChars
HasDollar(b) == \E i \in 1..Len(b) : b[i] = "$"

\* C27: an array holding one ordinary string (no whole encoded token)
\* decodes to that string, a $ followed by letters or digits in the middle
\* of other text included.
C27_StringsPreserved ==
    \A b \in ProseBodies :
        (ByKey /\ raw_text = ProseText(b) /\ ~WholeToken(b))
            => out = <<PyStr(b)>>
\* What the code does: a string without $ is preserved, and a string that
\* holds $ followed by a reference character is not.
C27_DollarFreePreserved ==
    \A b \in ProseBodies :
        (ByKey /\ raw_text = ProseText(b) /\ ~HasDollar(b))
            => out = <<PyStr(b)>>
C27_ReferenceInProseAltered ==
    \A b \in ProseBodies :
        (/\ ByKey /\ raw_text = ProseText(b)
         /\ \E i \in 1..(Len(b) - 1) : b[i] = "$" /\ b[i + 1] \in RefChars)
            => out # <<PyStr(b)>>

(* ------------------------------------------------------------------ *)
(* Claims on normalize_rsc_tokens                                      *)
(* ------------------------------------------------------------------ *)
Normalized == fn = "normalize_rsc_tokens" /\ returned
NoDollar(t) == \A k \in 1..Len(t) : t[k] # "$"
IsDigits(d) == d # <<>> /\ \A k \in 1..Len(d) : d[k] \in Digits
IsRef(d) == d # <<>> /\ \A k \in 1..Len(d) : d[k] \in RefChars
\* The three parts of text around the positions i .. e-1.
Before(i) == SubSeq(raw_text, 1, i - 1)
Between(i, e) == SubSeq(raw_text, i, e - 1)
After(e) == SubSeq(raw_text, e, Len(raw_text))
\* The part i .. e-1 stands between two double quotes.
InQuotes(i, e) ==
    /\ i > 1 /\ raw_text[i - 1] = Q
    /\ e <= Len(raw_text) /\ raw_text[e] = Q
\* tok is "$n<d>" / $n<d> for a digit string d.
QuotedNumber(tok) ==
    /\ Len(tok) >= 5
    /\ SubSeq(tok, 1, 3) = <<Q, "$", "n">>
    /\ tok[Len(tok)] = Q
    /\ IsDigits(SubSeq(tok, 4, Len(tok) - 1))
BareNumber(tok) ==
    /\ Len(tok) >= 3
    /\ SubSeq(tok, 1, 2) = <<"$", "n">>
    /\ IsDigits(SubSeq(tok, 3, Len(tok)))

\* C18: for every digit string d, a quoted token "$n<d>" and an unquoted
\* token $n<d> are rewritten to the bare literal d, and the text around the
\* token (text that holds no `$` of its own) is left as it is.
C18_NumericTokens ==
    Normalized =>
        \A i \in 1..(Len(raw_text) + 1) : \A e \in i..(Len(raw_text) + 1) :
            (NoDollar(Before(i)) /\ NoDollar(After(e))) =>
                /\ QuotedNumber(Between(i, e)) =>
                       out = Before(i) \o SubSeq(raw_text, i + 3, e - 2) \o After(e)
                /\ (/\ BareNumber(Between(i, e))
                    /\ ~InQuotes(i, e)
                    /\ ~(e <= Len(raw_text) /\ raw_text[e] \in Digits)) =>
                       out = Before(i) \o SubSeq(raw_text, i + 2, e - 1) \o After(e)
C18_Witness ==
    /\ Normalized
    /\ raw_text = <<",", Q, "$", "n", "1", "1", Q, ",">>
    /\ out = <<",", "1", "1", ",">>
C18_BareWitness ==
    /\ Normalized
    /\ raw_text = <<Q, "$", "n", "1", ",">>
    /\ out = <<Q, "1", ",">>

\* C19: for every payload p without a double quote the quoted token "$D<p>"
\* is rewritten to the quoted string "<p>", the payload kept verbatim: no
\* other rule, before or after the date rule, alters it.
C19_DatePayloadVerbatim ==
    (/\ Normalized
     /\ Len(raw_text) >= 5
     /\ SubSeq(raw_text, 1, 3) = <<Q, "$", "D">>
     /\ raw_text[Len(raw_text)] = Q
     /\ \A k \in 4..(Len(raw_text) - 1) : raw_text[k] # Q)
        => out = <<Q>> \o SubSeq(raw_text, 4, Len(raw_text) - 1) \o <<Q>>

\* The text holds a `$` immediately followed by a character of a reference.
HasDollarRef(t) ==
    \E k \in 1..(Len(t) - 1) : t[k] = "$" /\ t[k + 1] \in RefChars
HasDoubleDollar(t) ==
    \E k \in 1..(Len(t) - 1) : t[k] = "$" /\ t[k + 1] = "$"
\* tok is "$<ref>" / $<ref> and neither a numeric nor a date token.
QuotedRef(tok) ==
    /\ Len(tok) >= 4
    /\ SubSeq(tok, 1, 2) = <<Q, "$">>
    /\ tok[Len(tok)] = Q
    /\ IsRef(SubSeq(tok, 3, Len(tok) - 1))
    /\ ~QuotedNumber(tok)
    /\ ~(tok[3] = "D" /\ Len(tok) >= 5)
    /\ \A e \in 4..(Len(tok) - 1) : ~BareNumber(SubSeq(tok, 2, e))
BareRef(tok) ==
    /\ Len(tok) >= 2
    /\ tok[1] = "$"
    /\ IsRef(SubSeq(tok, 2, Len(tok)))
    /\ tok[2] # "D"
    /\ \A e \in 3..Len(tok) : ~BareNumber(SubSeq(tok, 1, e))

\* C20 as claimed: for every input, the output of normalize_rsc_tokens holds
\* no `$` immediately followed by a letter, a digit, an underscore or @.
C20_NoDollarRefLeft == Normalized => ~HasDollarRef(out)

\* C20 as amended: every reference token that is left after the numeric and
\* date rules, quoted or bare, is replaced by null; and for every input in
\* which no `$` is immediately followed by another `$`, the output holds no
\* `$` immediately followed by a letter, a digit, an underscore or @.
C20_RefsBecomeNull ==
    Normalized =>
        /\ ~HasDoubleDollar(raw_text) => ~HasDollarRef(out)
        /\ \A i \in 1..(Len(raw_text) + 1) : \A e \in i..(Len(raw_text) + 1) :
               (NoDollar(Before(i)) /\ NoDollar(After(e))) =>
                   /\ QuotedRef(Between(i, e)) =>
                          out = Before(i) \o <<"n", "u", "l", "l">> \o After(e)
                   /\ (/\ BareRef(Between(i, e))
                       /\ ~InQuotes(i, e)
                       /\ ~(e <= Len(raw_text) /\ raw_text[e] \in RefChars)) =>
                          out = Before(i) \o <<"n", "u", "l", "l">> \o After(e)
C20_Witness ==
    /\ Normalized
    /\ raw_text = <<",", "$", "@", "1", ",">>
    /\ out = <<",", "n", "u", "l", "l", ",">>
====
